---- MODULE Spec2Model ----
(***************************************************************************)
(* A model of four parts of the ChromeVox injected scripts:                *)
(*   - the nestable "in user command" guard of cvox.ChromeVoxUserCommands  *)
(*     (user_commands.js), a counter raised by markInUserCommand_ and      *)
(*     lowered by a timer callback 100 ms later;                           *)
(*   - cvox.LayoutLineWalker (layout_line_walker.js, part_000), which      *)
(*     merges the selections of a structural-line walker into visual       *)
(*     lines by comparing the bottoms of their bounding rectangles;        *)
(*   - the node predicates of cvox.ChromeVoxUserCommands that a search     *)
(*     applies to the ancestors changed by a move (user_commands.js);      *)
(*   - the navigation commands of cvox.ChromeVoxUserCommands (forward,     *)
(*     backward, the heading searches and the table commands) over the     *)
(*     navigation manager they drive.                                      *)
(***************************************************************************)
EXTENDS Integers, Sequences, FiniteSets, TLC

VARIABLES
  userCommandLevel_,  \* cvox.ChromeVoxUserCommands.userCommandLevel_
  timers,             \* the host's pending setTimeout callbacks, in scheduling order
  now,                \* the host's clock, in milliseconds
  calls,              \* history: the time of every markInUserCommand_ call
  fired,              \* history: the ids of the expiry callbacks run, in order
  punctual,           \* history: no pending callback was ever left waiting past its due time
  rects,              \* the document: the bounding rectangle of each structural line
  op,                 \* the LayoutLineWalker operation applied last
  arg,                \* the selection it was applied to
  res,                \* what it returned
  produced,           \* history: the layout lines a walk over the document returned
  nodes,              \* the changed ancestors a predicate is applied to
  match,              \* what each predicate returned for them
  doc,                \* the page the navigation manager walks
  nav,                \* the navigation manager: current position and table state
  out,                \* the observable effects of the command run last
  frames,             \* a parent window and the iframe it embeds, with their messages
  keys,               \* the keyboard handler and the key event it handled last
  powerkey            \* the PowerKey overlay, its timeouts and what they ran

guardVars == <<userCommandLevel_, timers, now, calls, fired, punctual>>
walkerVars == <<rects, op, arg, res, produced>>
predicateVars == <<nodes, match>>
commandVars == <<doc, nav, out>>
inputVars == <<frames, keys, powerkey>>
vars == <<userCommandLevel_, timers, now, calls, fired, punctual, rects, op, arg, res,
          produced, nodes, match, doc, nav, out, frames, keys, powerkey>>

\* JavaScript's null where a selection is expected: no selection.
None == [start |-> -1, end |-> -1, reversed |-> FALSE]

(***************************************************************************)
(* Bounds of the model.                                                    *)
(***************************************************************************)
MaxCommands == 3    \* markInUserCommand_ calls in one behaviour
TickLen == 10       \* the clock advances in steps of this many milliseconds
MaxTicks == 14      \* the clock stops after this many steps
MaxLines == 4       \* structural lines of a document

\* The delay markInUserCommand_ passes to setTimeout.
Delay == 100

MaxTime == TickLen * MaxTicks

(***************************************************************************)
(* The user-command guard.                                                 *)
(***************************************************************************)

\* cvox.ChromeVoxUserCommands.isInUserCommand
isInUserCommand == userCommandLevel_ > 0

\* A guard kept as a flag instead of a nesting level.
RaisedAsFlag(level) == 1

\* The value markInUserCommand_ leaves in the counter.
Raised(level) == level + 1

\* An expiry that clears the guard instead of lowering it by one level.
LoweredToZero(level) == 0

\* The value the expiry callback leaves in the counter.
Lowered(level) == level - 1

\* Whether the host may run a callback due at time `due`.
MayFire(due) == due <= now

\* markInUserCommand_: raise the counter and schedule its expiry.
markInUserCommand_ ==
  /\ Len(calls) < MaxCommands
  /\ userCommandLevel_' = Raised(userCommandLevel_)
  /\ timers' = Append(timers, [id |-> Len(calls) + 1, due |-> now + Delay])
  /\ calls' = Append(calls, now)
  /\ UNCHANGED <<now, fired, punctual>>

\* An expiry scheduled with setInterval: it runs and stays scheduled.
userCommandExpiryRepeating ==
  /\ timers # <<>>
  /\ MayFire(Head(timers).due)
  /\ Len(fired) < MaxCommands + 1
  /\ userCommandLevel_' = Lowered(userCommandLevel_)
  /\ fired' = Append(fired, Head(timers).id)
  /\ UNCHANGED <<timers, now, calls, punctual>>

\* The function markInUserCommand_ handed to setTimeout. All delays are equal, so
\* the host runs the callbacks in scheduling order: the head of the queue first.
userCommandExpiry ==
  /\ timers # <<>>
  /\ MayFire(Head(timers).due)
  /\ userCommandLevel_' = Lowered(userCommandLevel_)
  /\ fired' = Append(fired, Head(timers).id)
  /\ timers' = Tail(timers)
  /\ UNCHANGED <<now, calls, punctual>>

\* The host's clock advances. A callback runs no earlier than its due time, and may
\* run later: `punctual` records whether any was made to wait.
Tick ==
  /\ now < MaxTime
  /\ now' = now + TickLen
  /\ punctual' = (punctual /\ \A i \in 1..Len(timers) : timers[i].due >= now + TickLen)
  /\ UNCHANGED <<userCommandLevel_, timers, calls, fired>>

GuardInit ==
  /\ userCommandLevel_ = 0
  /\ timers = <<>>
  /\ now = 0
  /\ calls = <<>>
  /\ fired = <<>>
  /\ punctual = TRUE

WalkerIdle ==
  /\ rects = <<>>
  /\ op = "init"
  /\ arg = None
  /\ res = None
  /\ produced = <<>>

\* No predicate has been applied.
PredicateIdle ==
  /\ nodes = <<>>
  /\ match = <<>>

\* No page is loaded and no command has run.
CommandIdle ==
  /\ doc = <<>>
  /\ nav = <<>>
  /\ out = <<>>

\* No frame has exchanged a message.
FramesIdle == frames = <<>>

\* No key has been pressed.
KeysIdle == keys = <<>>

\* PowerKey has not been initialised.
PowerKeyIdle == powerkey = <<>>

InputIdle == FramesIdle /\ KeysIdle /\ PowerKeyIdle

GuardNext ==
  \/ markInUserCommand_ /\ UNCHANGED <<walkerVars, predicateVars, commandVars, inputVars>>
  \/ userCommandExpiry /\ UNCHANGED <<walkerVars, predicateVars, commandVars, inputVars>>
  \/ Tick /\ UNCHANGED <<walkerVars, predicateVars, commandVars, inputVars>>

GuardSpecInit == GuardInit /\ WalkerIdle /\ PredicateIdle /\ CommandIdle /\ InputIdle

GuardSpec == GuardSpecInit /\ [][GuardNext]_vars

(***************************************************************************)
(* The document and its geometry. A document is a sequence of structural   *)
(* lines; line i holds the cursors 3i-2 (its start), 3i-1 (inside it) and   *)
(* 3i (its end), so that cursors compare in document order. Cursor 0 is a   *)
(* cursor on a node that is not in the document.                           *)
(***************************************************************************)
Detached == 0
NumLines == Len(rects)
LineStart(i) == 3 * i - 2
LineEnd(i) == 3 * i
LineOf(c) == (c + 2) \div 3
Cursors == 1..LineEnd(NumLines)

\* What getBoundingClientRect() returns for a range with no boxes.
ZeroRect == [top |-> 0, bottom |-> 0, left |-> 0, right |-> 0]
\* The rectangles of text on a first and on a second visual line.
RectUpper == [top |-> 0, bottom |-> 10, left |-> 0, right |-> 50]
RectLower == [top |-> 10, bottom |-> 20, left |-> 0, right |-> 50]
Rects == {ZeroRect, RectUpper, RectLower}
IsZeroSized(r) == r.top = r.bottom /\ r.left = r.right

(***************************************************************************)
(* cvox.CursorSelection, as cvox.LayoutLineWalker uses it: a start cursor, *)
(* an end cursor and a reversed flag. The walker reads sel.end as the      *)
(* "directed end" of the selection (next) and calls setReversed(false) to  *)
(* get the selection in document order (getDescription): the end of a      *)
(* reversed selection is its cursor that comes first in the document.      *)
(***************************************************************************)

\* new cvox.CursorSelection(start, end, reverse)
CursorSelection(start, end, reverse) ==
  IF (reverse /\ start < end) \/ (~reverse /\ end < start)
  THEN [start |-> end, end |-> start, reversed |-> reverse]
  ELSE [start |-> start, end |-> end, reversed |-> reverse]

\* sel.setReversed(reversed)
setReversed(sel, reversed) ==
  IF sel.reversed = reversed
  THEN sel
  ELSE [start |-> sel.end, end |-> sel.start, reversed |-> reversed]

absStart(sel) == IF sel.reversed THEN sel.end ELSE sel.start
absEnd(sel) == IF sel.reversed THEN sel.start ELSE sel.end

\* a.absEquals(b)
absEquals(a, b) == absStart(a) = absStart(b) /\ absEnd(a) = absEnd(b)

(***************************************************************************)
(* cvox.StructuralLineWalker, the walker LayoutLineWalker composes.        *)
(***************************************************************************)

\* The selection of structural line i, in the given direction.
LineSel(i, reverse) == CursorSelection(LineStart(i), LineEnd(i), reverse)

\* subWalker_.sync(sel): the structural line at the start of sel, none for a
\* selection on a detached node.
subSync(sel) ==
  IF sel.start \notin Cursors \/ sel.end \notin Cursors
  THEN None
  ELSE LineSel(LineOf(sel.start), sel.reversed)

\* subWalker_.next(sel): the structural line after the one holding the end of sel, in
\* the direction of sel; none past either end of the document.
subNext(sel) ==
  IF sel.end \notin Cursors
  THEN None
  ELSE LET j == IF sel.reversed THEN LineOf(sel.end) - 1 ELSE LineOf(sel.end) + 1
       IN IF j \in 1..NumLines THEN LineSel(j, sel.reversed) ELSE None

(***************************************************************************)
(* cvox.LayoutLineWalker.                                                  *)
(***************************************************************************)

\* sel.getRange().getBoundingClientRect() of a structural-line selection.
getBoundingClientRect(sel) == rects[LineOf(absStart(sel))]

\* A comparison of the tops of the rectangles instead of their bottoms.
isVisualLineBreakByTop(lSel, rSel) ==
  getBoundingClientRect(lSel).top # getBoundingClientRect(rSel).top

\* A comparison that takes a zero-sized rectangle to lie on its neighbour's line.
isVisualLineBreakFailOpen(lSel, rSel) ==
  /\ ~IsZeroSized(getBoundingClientRect(lSel))
  /\ ~IsZeroSized(getBoundingClientRect(rSel))
  /\ getBoundingClientRect(lSel).bottom # getBoundingClientRect(rSel).bottom

\* cvox.LayoutLineWalker.prototype.isVisualLineBreak_
isVisualLineBreak_(lSel, rSel) ==
  getBoundingClientRect(lSel).bottom # getBoundingClientRect(rSel).bottom

\* The do-while loop of extend_: the last selection reached from `end` before a
\* visual line break or the end of the document.
RECURSIVE extendLoop(_)
extendLoop(end) ==
  LET next_ == subNext(end)
  IN IF next_ # None /\ ~isVisualLineBreak_(end, next_)
     THEN extendLoop(next_)
     ELSE end

\* An extension that keeps the selection that failed the loop's test.
extendPastBreak(start) ==
  LET end == extendLoop(start)
      next_ == subNext(end)
  IN CursorSelection(start.start, (IF next_ # None THEN next_ ELSE end).end, start.reversed)

\* An extension built without the direction of its start.
extendForgettingDirection(start) ==
  CursorSelection(start.start, extendLoop(start).end, FALSE)

\* cvox.LayoutLineWalker.prototype.extend_
extend_(start) ==
  CursorSelection(start.start, extendLoop(start).end, start.reversed)

\* A next that returns the extension as it is, still in the direction of travel.
nextKeepingDirection(sel) ==
  LET endSel == CursorSelection(sel.end, sel.end, sel.reversed)
  IN IF subSync(endSel) = None THEN None
     ELSE IF subNext(endSel) = None THEN None
     ELSE extend_(setReversed(subNext(endSel), sel.reversed))

\* A next that returns the sub-walker's next line without extending it.
nextWithoutExtending(sel) ==
  LET endSel == CursorSelection(sel.end, sel.end, sel.reversed)
  IN IF subSync(endSel) = None THEN None
     ELSE IF subNext(endSel) = None THEN None
     ELSE setReversed(subNext(endSel), FALSE)

\* A next that starts over at the other end of the document when it runs out.
nextWrapping(sel) ==
  LET endSel == CursorSelection(sel.end, sel.end, sel.reversed)
  IN IF subSync(endSel) = None THEN None
     ELSE IF subNext(endSel) = None
     THEN setReversed(extend_(LineSel(IF sel.reversed THEN NumLines ELSE 1, sel.reversed)), FALSE)
     ELSE setReversed(extend_(setReversed(subNext(endSel), sel.reversed)), FALSE)

\* A next that starts one structural line too far.
nextSkippingLine(sel) ==
  LET endSel == CursorSelection(sel.end, sel.end, sel.reversed)
      skipped == subNext(endSel)
      start == IF skipped = None THEN None ELSE subNext(skipped)
  IN IF subSync(endSel) = None THEN None
     ELSE IF start = None THEN None
     ELSE setReversed(extend_(setReversed(start, sel.reversed)), FALSE)

\* cvox.LayoutLineWalker.prototype.next
next(sel) ==
  LET endSel == CursorSelection(sel.end, sel.end, sel.reversed)
      sync_ == subSync(endSel)
      start == subNext(endSel)
  IN IF sync_ = None THEN None
     ELSE IF start = None THEN None
     ELSE setReversed(extend_(setReversed(start, sel.reversed)), FALSE)

\* cvox.LayoutLineWalker.prototype.sync
sync(sel) ==
  LET line == subSync(sel)
  IN IF line = None THEN None
     ELSE LET end == extend_(line)
              start == extend_(setReversed(line, ~line.reversed))
          IN CursorSelection(start.end, end.end, sel.reversed)

\* The selections a caller may hand to the walker: any two cursors of the document
\* in either direction, or a selection on a detached node.
Selections ==
  {CursorSelection(a, b, r) : a \in Cursors, b \in Cursors, r \in BOOLEAN}
    \cup {CursorSelection(Detached, Detached, r) : r \in BOOLEAN}

Documents == UNION {[1..n -> Rects] : n \in 1..MaxLines}

WalkerInit ==
  /\ rects \in Documents
  /\ op = "init"
  /\ arg = None
  /\ res = None
  /\ produced = <<>>

\* The walker is stateless: each behaviour applies one operation to a selection the
\* caller chose and then walks on from the result.
\* sync is applied to a selection.
DoSync ==
  /\ op = "init"
  /\ \E sel \in Selections :
       /\ op' = "sync"
       /\ arg' = sel
       /\ res' = sync(sel)
  /\ UNCHANGED <<rects, produced>>

\* next is applied to a selection.
DoNext ==
  /\ op = "init"
  /\ \E sel \in Selections :
       /\ op' = "next"
       /\ arg' = sel
       /\ res' = next(sel)
  /\ UNCHANGED <<rects, produced>>

\* extend_ is applied to a structural line, as sync and next apply it.
DoExtend ==
  /\ op = "init"
  /\ \E i \in 1..NumLines, r \in BOOLEAN :
       /\ op' = "extend"
       /\ arg' = LineSel(i, r)
       /\ res' = extend_(LineSel(i, r))
  /\ UNCHANGED <<rects, produced>>

\* The caller moves on from where the walker left it: next is applied, in either
\* direction, to the selection returned last, or again to the same selection when
\* the walker returned none.
Walk ==
  /\ op \in {"sync", "next"}
  /\ \E r \in BOOLEAN :
       /\ op' = "next"
       /\ arg' = setReversed(IF res # None THEN res ELSE arg, r)
       /\ res' = next(arg')
  /\ UNCHANGED <<rects, produced>>

WalkerNext ==
  \/ DoSync /\ UNCHANGED <<guardVars, predicateVars, commandVars, inputVars>>
  \/ DoNext /\ UNCHANGED <<guardVars, predicateVars, commandVars, inputVars>>
  \/ DoExtend /\ UNCHANGED <<guardVars, predicateVars, commandVars, inputVars>>
  \/ Walk /\ UNCHANGED <<guardVars, predicateVars, commandVars, inputVars>>

\* A reader goes through the document line by line: sync on the first structural
\* line, then next on what the walker returned last, until it returns none.
StartWalk ==
  /\ op = "init"
  /\ op' = "sync"
  /\ arg' = LineSel(1, FALSE)
  /\ res' = sync(arg')
  /\ produced' = <<res'>>
  /\ UNCHANGED rects

NextLine ==
  /\ op \in {"sync", "next"}
  /\ res # None
  /\ op' = "next"
  /\ arg' = res
  /\ res' = next(res)
  /\ produced' = IF res' # None THEN Append(produced, res') ELSE produced
  /\ UNCHANGED rects

PartitionNext ==
  \/ StartWalk /\ UNCHANGED <<guardVars, predicateVars, commandVars, inputVars>>
  \/ NextLine /\ UNCHANGED <<guardVars, predicateVars, commandVars, inputVars>>

WalkerSpecInit == GuardInit /\ WalkerInit /\ PredicateIdle /\ CommandIdle /\ InputIdle

WalkerSpec == WalkerSpecInit /\ [][WalkerNext]_vars
PartitionSpec == WalkerSpecInit /\ [][PartitionNext]_vars

(***************************************************************************)
(* cvox.LayoutLineWalker.getDescription and getBraille.  Each structural   *)
(* line is the text of one node.  The structural-line walker describes a   *)
(* selection by one unit, which keeps the selection it describes and the   *)
(* previous selection it was described against, and brailles it by one     *)
(* item.  At most one node of the document is a text field, with a value   *)
(* span in its braille item and a selection of its own; or else at most    *)
(* one structural line has an empty braille item.                          *)
(***************************************************************************)

\* The node a cursor lies in.
NodeOf(c) == LineOf(c)

\* subWalker_.getDescription(prevSel, sel)
subGetDescription(prevSel, sel) == <<[prevSel |-> prevSel, sel |-> sel]>>

\* item.getSpanStart(VALUE_SPAN) of an item without a value span: null.
NullSpan == -1

\* No node of the document is a text field and no braille item is empty.
NoField ==
  [node |-> 0, valueSpanStart |-> NullSpan, selectionStart |-> 0, selectionEnd |-> 0,
   empty |-> 0]

\* The text fields a document may hold: the node of one of its lines, its braille
\* item with or without a value span, the caret behind the first character of the
\* value or a selection of its second character; or the line whose item is empty.
Fields ==
  {NoField} \cup
  [node : 1..NumLines, valueSpanStart : {NullSpan, 1}, selectionStart : {1},
   selectionEnd : {1, 2}, empty : {0}] \cup
  {[NoField EXCEPT !.empty = line] : line \in 1..NumLines}

\* subWalker_.getBraille(prevSel, cur).text: the item of a structural line, a text
\* of as many cells as the number of the line and two more, or an empty text.
subGetBraille(prevSel, cur, field) ==
  [length |-> IF field.empty = LineOf(cur.start) THEN 0 ELSE LineOf(cur.start) + 2,
   valueSpanStart |-> IF field.node = NodeOf(cur.start) THEN field.valueSpanStart
                      ELSE NullSpan]

\* The length of cvox.BrailleUtil.ITEM_SEPARATOR.
SeparatorLength == 1

\* new cvox.NavBraille({})
EmptyBraille ==
  [length |-> 0, spans |-> <<>>, separators |-> <<>>, startIndex |-> -1, endIndex |-> -1]

\* The walk of getDescription from cur, described against prev, to the sub-selection
\* whose end is the cursor `end`.
RECURSIVE describeLoop(_, _, _)
describeLoop(prev, cur, end) ==
  IF cur = None THEN <<>>
  ELSE IF cur.end = end THEN subGetDescription(prev, cur)
  ELSE subGetDescription(prev, cur) \o describeLoop(cur, subNext(cur), end)

\* A getDescription that walks the sub-selections also of a selection in one node.
getDescriptionAccumulating(prevSel, sel) ==
  LET absSel == setReversed(sel, FALSE)
      cur == subSync(CursorSelection(absSel.start, absSel.start, FALSE))
  IN IF cur = None THEN <<>> ELSE describeLoop(prevSel, cur, absSel.end)

\* cvox.LayoutLineWalker.prototype.getDescription
getDescription(prevSel, sel) ==
  LET absSel == setReversed(sel, FALSE)
      cur == subSync(CursorSelection(absSel.start, absSel.start, FALSE))
  IN IF cur = None THEN <<>>
     ELSE IF NodeOf(absSel.start) = NodeOf(absSel.end) THEN subGetDescription(prevSel, sel)
     ELSE describeLoop(prevSel, cur, absSel.end)

\* An append that sets the caret at every segment.
appendBrailleCaretAtEach(prevSel, sel, cur, braille, field) ==
  LET item == subGetBraille(prevSel, cur, field)
      spanStart == IF braille.length > 0 THEN braille.length + SeparatorLength
                   ELSE braille.length
      spanEnd == spanStart + item.length
  IN [braille EXCEPT !.length = spanEnd,
                     !.separators = IF braille.length > 0 THEN Append(@, braille.length)
                                    ELSE @,
                     !.spans = Append(@, [node |-> NodeOf(cur.start), prevSel |-> prevSel,
                                          start |-> spanStart, end |-> spanEnd]),
                     !.startIndex = spanStart,
                     !.endIndex = spanStart + 1]

\* cvox.LayoutLineWalker.prototype.appendBraille_: a separator is recorded by the
\* place in the text it was appended at.
appendBraille_(prevSel, sel, cur, braille, field) ==
  LET item == subGetBraille(prevSel, cur, field)
      separated == IF braille.length > 0 THEN braille.length + SeparatorLength
                   ELSE braille.length
      spanStart == separated
      spanEnd == spanStart + item.length
      appended ==
        [braille EXCEPT !.length = spanEnd,
                        !.separators = IF braille.length > 0 THEN Append(@, braille.length)
                                       ELSE @,
                        !.spans = Append(@, [node |-> NodeOf(cur.start), prevSel |-> prevSel,
                                             start |-> spanStart, end |-> spanEnd])]
  IN IF sel # None /\ absEquals(cur, sel)
     THEN IF item.valueSpanStart # NullSpan /\ field.node = NodeOf(cur.start)
          THEN [appended EXCEPT
                  !.startIndex = spanStart + item.valueSpanStart + field.selectionStart,
                  !.endIndex = spanStart + item.valueSpanStart + field.selectionEnd]
          ELSE [appended EXCEPT !.startIndex = spanStart, !.endIndex = spanStart + 1]
     ELSE appended

\* The walk of getBraille from cur to the sub-selection whose end is the cursor `end`.
RECURSIVE brailleLoop(_, _, _, _, _, _)
brailleLoop(prevSel, sel, cur, end, braille, field) ==
  IF cur = None THEN braille
  ELSE IF cur.end = end THEN appendBraille_(prevSel, sel, cur, braille, field)
  ELSE brailleLoop(cur, sel, subNext(cur), end,
                   appendBraille_(prevSel, sel, cur, braille, field), field)

\* What a call returned, or that it threw.
Value(v) == [threw |-> "", value |-> v]
Thrown(error) == [threw |-> error, value |-> <<>>]

\* cvox.LayoutLineWalker.prototype.getBraille: this.sync(sel) is dereferenced before
\* it is tested.
getBraille(prevSel, sel, field) ==
  LET absSel == subSync(setReversed(sel, FALSE))
      layout == sync(sel)
      layoutSel == setReversed(layout, FALSE)
      cur == subSync(CursorSelection(layoutSel.start, layoutSel.start, FALSE))
  IN IF layout = None THEN Thrown("TypeError")
     ELSE IF absSel = None THEN Value(EmptyBraille)
     ELSE IF cur = None THEN Value(EmptyBraille)
     ELSE Value(brailleLoop(prevSel, absSel, cur, layoutSel.end, EmptyBraille, field))

\* The documents described: lines on an upper or on a lower visual line.
DescribeInit ==
  /\ rects \in UNION {[1..n -> {RectUpper, RectLower}] : n \in 1..MaxLines}
  /\ op = "init"
  /\ arg = None
  /\ res = None
  /\ produced = <<>>

\* The selection the caller came from: the last structural line, read backwards.
PrevSel == LineSel(NumLines, TRUE)

\* getDescription(prevSel, sel) is applied to a selection.
GetDescription ==
  /\ op = "init"
  /\ \E sel \in Selections :
       /\ op' = "getDescription"
       /\ arg' = [prevSel |-> PrevSel, sel |-> sel, field |-> NoField]
       /\ res' = Value(getDescription(PrevSel, sel))
  /\ UNCHANGED <<rects, produced>>

\* getBraille(prevSel, sel) is applied to a selection.
GetBraille ==
  /\ op = "init"
  /\ \E sel \in Selections, field \in Fields :
       /\ op' = "getBraille"
       /\ arg' = [prevSel |-> PrevSel, sel |-> sel, field |-> field]
       /\ res' = getBraille(PrevSel, sel, field)
  /\ UNCHANGED <<rects, produced>>

DescribeNext ==
  \/ GetDescription /\ UNCHANGED <<guardVars, predicateVars, commandVars, inputVars>>
  \/ GetBraille /\ UNCHANGED <<guardVars, predicateVars, commandVars, inputVars>>

DescribeSpecInit ==
  GuardInit /\ DescribeInit /\ PredicateIdle /\ CommandIdle /\ InputIdle

DescribeSpec == DescribeSpecInit /\ [][DescribeNext]_vars

(***************************************************************************)
(* The node predicates (user_commands.js).  A predicate is applied to the  *)
(* ancestors changed by a move, an array of DOM nodes, and returns one of  *)
(* them or null.  A node is a record of what the predicates read from it:  *)
(* tagName, the role attribute ("" when absent), the type property and     *)
(* whether it has getAttribute at all (a text node has not).  The node a   *)
(* predicate returns is identified by its index in the array, from 1;      *)
(* Null stands for null.                                                   *)
(***************************************************************************)
MaxDelta == 2       \* changed ancestors handed to a predicate

Null == 0

Node(tagName, role, type) == [tagName |-> tagName, role |-> role, type |-> type, element |-> TRUE]
TextNode == [tagName |-> "", role |-> "", type |-> "", element |-> FALSE]

\* The nodes predicates are applied to: every tag, role and input type some
\* predicate tests, alone and in the combinations where two tests meet.
Nodes ==
  { TextNode,
    Node("P", "", ""), Node("A", "", ""), Node("IMG", "", ""),
    Node("H1", "", ""), Node("H2", "", ""), Node("H6", "", ""),
    Node("TABLE", "", ""), Node("BLOCKQUOTE", "", ""),
    Node("UL", "", ""), Node("OL", "", ""), Node("LI", "", ""),
    Node("BUTTON", "", "submit"), Node("SELECT", "", "select-one"),
    Node("TEXTAREA", "", "textarea"),
    Node("INPUT", "", "checkbox"), Node("INPUT", "", "radio"),
    Node("INPUT", "", "range"), Node("INPUT", "", "img"),
    Node("INPUT", "", "submit"), Node("INPUT", "", "text"),
    Node("DIV", "checkbox", ""), Node("DIV", "spinbutton", ""),
    Node("DIV", "heading", ""), Node("DIV", "link", ""),
    Node("DIV", "main", ""), Node("H1", "navigation", ""), Node("A", "button", "") }

\* node.getAttribute && node.getAttribute('role') == role
HasRole(node, role) == node.element /\ node.role = role

\* cvox.AriaUtil.isLandmark: the node carries a landmark role.
isLandmark(node) == node.element /\ node.role \in {"main", "navigation"}

\* cvox.DomUtil.isInputTypeText: the input holds a line of text.
isInputTypeText(node) == node.type = "text"

HeadingTags == {"H1", "H2", "H3", "H4", "H5", "H6"}

\* The test each front-to-back predicate makes on one node.
Satisfies(category, node) ==
  CASE category = "checkbox" ->
         HasRole(node, "checkbox") \/ (node.tagName = "INPUT" /\ node.type = "checkbox")
    [] category = "radio" ->
         HasRole(node, "radio") \/ (node.tagName = "INPUT" /\ node.type = "radio")
    [] category = "slider" ->
         HasRole(node, "slider") \/ (node.tagName = "INPUT" /\ node.type = "range")
    [] category = "graphic" ->
         node.tagName = "IMG" \/ (node.tagName = "INPUT" /\ node.type = "img")
    [] category = "button" ->
         \/ HasRole(node, "button")
         \/ node.tagName = "BUTTON"
         \/ (node.tagName = "INPUT" /\ node.type \in {"submit", "button", "reset"})
    [] category = "comboBox" ->
         HasRole(node, "combobox") \/ node.tagName = "SELECT"
    [] category = "editText" ->
         \/ HasRole(node, "textbox")
         \/ node.tagName = "TEXTAREA"
         \/ (node.tagName = "INPUT" /\ isInputTypeText(node))
    [] category = "heading" ->
         HasRole(node, "heading") \/ node.tagName \in HeadingTags
    [] category = "link" ->
         HasRole(node, "link") \/ node.tagName = "A"
    [] category = "list" ->
         HasRole(node, "list") \/ node.tagName = "UL" \/ node.tagName = "OL"
    [] category = "listItem" ->
         HasRole(node, "listitem") \/ node.tagName = "LI"
    [] category = "formField" ->
         \/ (node.element /\ node.role \in {"button", "checkbox", "combobox", "radio",
                                            "slider", "spinbutton", "textbox"})
         \/ node.tagName \in {"INPUT", "SELECT", "BUTTON"}
    [] category = "landmark" ->
         isLandmark(node)
    [] category = "jump" ->
         isLandmark(node) \/ HasRole(node, "heading") \/ node.tagName \in HeadingTags

\* A loop that runs the other way: from the last node down to the first.
RECURSIVE forLoopFromBack(_, _, _)
forLoopFromBack(arr, i, category) ==
  IF Len(arr) + 1 - i < 1 THEN Null
  ELSE IF Satisfies(category, arr[Len(arr) + 1 - i]) THEN Len(arr) + 1 - i
  ELSE forLoopFromBack(arr, i + 1, category)

\* for (var i = 0; i < nodes.length; i++) { if (test) return nodes[i]; } return null;
\* here from index i on.
RECURSIVE forLoop(_, _, _)
forLoop(arr, i, category) ==
  IF i > Len(arr) THEN Null
  ELSE IF Satisfies(category, arr[i]) THEN i
  ELSE forLoop(arr, i + 1, category)

\* var i = arr.length; while (i--) { if (arr[i].tagName == tagName) return arr[i]; }
\* here from index i down.
RECURSIVE whileLoop(_, _, _)
whileLoop(arr, i, tagName) ==
  IF i < 1 THEN Null
  ELSE IF arr[i].tagName = tagName THEN i
  ELSE whileLoop(arr, i - 1, tagName)

containsTagName_(arr, tagName) == whileLoop(arr, Len(arr), tagName)

checkboxPredicate_(arr) == forLoop(arr, 1, "checkbox")
radioPredicate_(arr) == forLoop(arr, 1, "radio")
sliderPredicate_(arr) == forLoop(arr, 1, "slider")
graphicPredicate_(arr) == forLoop(arr, 1, "graphic")
buttonPredicate_(arr) == forLoop(arr, 1, "button")
comboBoxPredicate_(arr) == forLoop(arr, 1, "comboBox")
editTextPredicate_(arr) == forLoop(arr, 1, "editText")
headingPredicate_(arr) == forLoop(arr, 1, "heading")
heading1Predicate_(arr) == containsTagName_(arr, "H1")
heading2Predicate_(arr) == containsTagName_(arr, "H2")
heading3Predicate_(arr) == containsTagName_(arr, "H3")
heading4Predicate_(arr) == containsTagName_(arr, "H4")
heading5Predicate_(arr) == containsTagName_(arr, "H5")
heading6Predicate_(arr) == containsTagName_(arr, "H6")
linkPredicate_(arr) == forLoop(arr, 1, "link")

\* A negation that looks at the first node only.
notLinkOfFirstNode(arr) == arr = <<>> \/ ~Satisfies("link", arr[1])

notLinkPredicate_(arr) == linkPredicate_(arr) = Null
tablePredicate_(arr) == containsTagName_(arr, "TABLE")
listPredicate_(arr) == forLoop(arr, 1, "list")
listItemPredicate_(arr) == forLoop(arr, 1, "listItem")
blockquotePredicate_(arr) == containsTagName_(arr, "BLOCKQUOTE")
formFieldPredicate_(arr) == forLoop(arr, 1, "formField")

\* A jump predicate that prefers headings: a landmark only when there is no heading.
jumpPreferringHeadings(arr) ==
  IF forLoop(arr, 1, "heading") # Null THEN forLoop(arr, 1, "heading")
  ELSE forLoop(arr, 1, "landmark")

jumpPredicate_(arr) == forLoop(arr, 1, "jump")
landmarkPredicate_(arr) == forLoop(arr, 1, "landmark")

\* The predicates that scan front to back, each with the test it makes, and the
\* predicates that look for one tag, each with its tag.
FrontToBack ==
  {"checkbox", "radio", "slider", "graphic", "button", "comboBox", "editText",
   "heading", "link", "list", "listItem", "formField", "landmark", "jump"}
TagEquality == {"H1", "H2", "H3", "H4", "H5", "H6", "TABLE", "BLOCKQUOTE"}

\* Every predicate applied to the same array.
applyPredicates(arr) ==
  [checkbox |-> checkboxPredicate_(arr), radio |-> radioPredicate_(arr),
   slider |-> sliderPredicate_(arr), graphic |-> graphicPredicate_(arr),
   button |-> buttonPredicate_(arr), comboBox |-> comboBoxPredicate_(arr),
   editText |-> editTextPredicate_(arr), heading |-> headingPredicate_(arr),
   H1 |-> heading1Predicate_(arr), H2 |-> heading2Predicate_(arr),
   H3 |-> heading3Predicate_(arr), H4 |-> heading4Predicate_(arr),
   H5 |-> heading5Predicate_(arr), H6 |-> heading6Predicate_(arr),
   notLink |-> notLinkPredicate_(arr), link |-> linkPredicate_(arr),
   TABLE |-> tablePredicate_(arr), list |-> listPredicate_(arr),
   listItem |-> listItemPredicate_(arr), BLOCKQUOTE |-> blockquotePredicate_(arr),
   formField |-> formFieldPredicate_(arr), jump |-> jumpPredicate_(arr),
   landmark |-> landmarkPredicate_(arr)]

PredicateInit ==
  /\ nodes = <<>>
  /\ match = <<>>

\* A move changes one more ancestor: the array the predicates will see grows.
ChangeAncestor ==
  /\ Len(nodes) < MaxDelta
  /\ \E node \in Nodes : nodes' = Append(nodes, node)
  /\ match' = <<>>

\* The predicates are applied to the changed ancestors.
ApplyPredicates ==
  /\ match = <<>>
  /\ match' = applyPredicates(nodes)
  /\ UNCHANGED nodes

PredicateNext ==
  \/ ChangeAncestor /\ UNCHANGED <<guardVars, walkerVars, commandVars, inputVars>>
  \/ ApplyPredicates /\ UNCHANGED <<guardVars, walkerVars, commandVars, inputVars>>

PredicateSpecInit == GuardInit /\ WalkerIdle /\ PredicateInit /\ CommandIdle /\ InputIdle

PredicateSpec == PredicateSpecInit /\ [][PredicateNext]_vars

(***************************************************************************)
(* The navigation manager, cvox.ChromeVox.navigationManager, that the      *)
(* commands of user_commands.js drive.  The page is a row of positions,    *)
(* 1..DocLen, the stops of the active granularity in document order.  It   *)
(* holds one table: doc.pre positions come before it, then its cells in    *)
(* row-major order, doc.cellLen positions each, then doc.post positions.   *)
(* doc.headings are the positions that lie in a heading of their own.      *)
(* The manager is the record nav: the current position, the ancestors      *)
(* changed by the move made last, and the table coordinates.               *)
(***************************************************************************)
MaxRows == 3        \* rows of the table
MaxCols == 3        \* columns of the table
MaxCellLen == 2     \* positions in one cell
MaxHeadings == 2    \* headings on a page

DocLen == doc.pre + doc.rows * doc.cols * doc.cellLen + doc.post
Positions == 1..DocLen
TableFirst == doc.pre + 1
TableLast == doc.pre + doc.rows * doc.cols * doc.cellLen
InTableSubtree(p) == TableFirst <= p /\ p <= TableLast
CellOf(p) == (p - TableFirst) \div doc.cellLen
RowOf(p) == (CellOf(p) \div doc.cols) + 1
ColOf(p) == (CellOf(p) % doc.cols) + 1
CellFirst(row, col) == TableFirst + ((row - 1) * doc.cols + (col - 1)) * doc.cellLen
InCell(p, row, col) == InTableSubtree(p) /\ RowOf(p) = row /\ ColOf(p) = col

\* The ancestors changed by a move from one position to another: the heading
\* entered, if any.
HeadingNode == Node("H1", "", "")
changedAncestors(from, to) ==
  IF to # from /\ to \in doc.headings THEN <<HeadingNode>> ELSE <<>>

\* The manager at position p, outside table mode, at the finest granularity.
Browsing(p) ==
  [cur |-> p, delta |-> <<>>, inTable |-> FALSE, row |-> 0, col |-> 0, level |-> 1]

\* The table coordinates are reset.
resetTable(n) == [n EXCEPT !.inTable = FALSE, !.row = 0, !.col = 0]

\* The manager after a generic move to p: a move that leaves the table subtree
\* resets the table coordinates.
movedTo(n, p) ==
  LET m == [n EXCEPT !.cur = p, !.delta = changedAncestors(n.cur, p)]
  IN IF n.inTable /\ ~InTableSubtree(p) THEN resetTable(m) ELSE m

Moved(n) == [nav |-> n, ok |-> TRUE]
Failed(n) == [nav |-> n, ok |-> FALSE]

\* navigationManager.next(true): one move forward, a failure at the end of the page.
navNext(n) == IF n.cur < DocLen THEN Moved(movedTo(n, n.cur + 1)) ELSE Failed(n)

\* navigationManager.previous(true): one move backward, a failure at the start.
navPrevious(n) == IF n.cur > 1 THEN Moved(movedTo(n, n.cur - 1)) ELSE Failed(n)

inTableMode(n) == n.inTable

\* navigationManager.checkCellBoundaries(): the position is inside the expected cell.
checkCellBoundaries(n) == InCell(n.cur, n.row, n.col)

\* navigationManager.enterTable(): the table enclosing the position, if any.
navEnterTable(n) ==
  IF InTableSubtree(n.cur)
  THEN Moved([n EXCEPT !.inTable = TRUE, !.row = RowOf(n.cur), !.col = ColOf(n.cur)])
  ELSE Failed(n)

navExitTable(n) == resetTable(n)

\* The manager after a move to the cell at (row, col).
atCell(n, row, col) ==
  [n EXCEPT !.cur = CellFirst(row, col),
            !.delta = changedAncestors(n.cur, CellFirst(row, col)),
            !.row = row, !.col = col]

navPreviousRow(n) == IF n.row > 1 THEN Moved(atCell(n, n.row - 1, n.col)) ELSE Failed(n)
navNextRow(n) == IF n.row < doc.rows THEN Moved(atCell(n, n.row + 1, n.col)) ELSE Failed(n)
navPreviousCol(n) == IF n.col > 1 THEN Moved(atCell(n, n.row, n.col - 1)) ELSE Failed(n)
navNextCol(n) == IF n.col < doc.cols THEN Moved(atCell(n, n.row, n.col + 1)) ELSE Failed(n)

\* The registry of granularities, from the finest to the coarsest.
Granularities ==
  <<"SELECTION", "CHARACTER", "WORD", "SENTENCE", "STRUCTURAL_LINE", "LAYOUT_LINE",
    "PARAGRAPH", "OBJECT">>

\* A registry in which the level above the coarsest is the finest.
navUpWrapping(n) == [n EXCEPT !.level = (@ % Len(Granularities)) + 1]

\* navigationManager.up(): one level coarser, clamped at the coarsest.
navUp(n) == [n EXCEPT !.level = IF @ < Len(Granularities) THEN @ + 1 ELSE @]

\* navigationManager.down(): one level finer, clamped at the finest.
navDown(n) == [n EXCEPT !.level = IF @ > 1 THEN @ - 1 ELSE @]

\* navigationManager.getStrategy() and getGranularity(): the label of the active
\* granularity.
getStrategy(n) == Granularities[n.level]
getGranularity(n) == Granularities[n.level]

\* if (predicate(nodes)): the predicate a search command passes returned a node
\* (or true, for the not-link predicate).
Matches(predicate, arr) ==
  CASE predicate = "heading" -> headingPredicate_(arr) # Null
    [] predicate = "link" -> linkPredicate_(arr) # Null
    [] predicate = "notLink" -> notLinkPredicate_(arr)

\* One move after another in one direction until the predicate matches the
\* ancestors changed by a move, or the page ends.
RECURSIVE findFrom(_, _, _)
findFrom(n, forwards, predicate) ==
  LET m == IF forwards THEN navNext(n) ELSE navPrevious(n)
  IN IF ~m.ok THEN Failed(n)
     ELSE IF Matches(predicate, m.nav.delta) THEN m
     ELSE findFrom(m.nav, forwards, predicate)

\* navigationManager.findNext(predicate), findPrevious(predicate): all or nothing,
\* a failed search leaves the manager as it was.
findNext(n, predicate) ==
  LET f == findFrom(n, TRUE, predicate) IN IF f.ok THEN f ELSE Failed(n)
findPrevious(n, predicate) ==
  LET f == findFrom(n, FALSE, predicate) IN IF f.ok THEN f ELSE Failed(n)

\* navigationManager.getCurrentDescription(): a unit for each changed ancestor and
\* one for the content at the position, each knowing the position it describes;
\* no unit when the manager has no current position (position 0).
getCurrentDescription(n) ==
  IF n.cur = 0 THEN <<>>
  ELSE [i \in 1..(Len(n.delta) + 1) |->
          [text |-> IF i <= Len(n.delta) THEN "ancestor" ELSE "content", at |-> n.cur]]

(***************************************************************************)
(* The commands (user_commands.js).  A command is an operator from the     *)
(* effects so far to the effects after it: the manager it leaves (nav),    *)
(* its return value (ret), the utterances handed to the speech engine with *)
(* their queue modes (spoken), the calls of finishNavCommand (finishes),   *)
(* the moves the command itself asked of the manager (moves), the calls of *)
(* markInUserCommand_ (marks), the outcome of its search (found), the      *)
(* calls it made in the order it made them (log) and the value of the      *)
(* guard counter and the number of expiries run when it began (guard,      *)
(* expired).  An utterance that is a            *)
(* description unit carries the position it describes (at), any other 0.   *)
(* Focus, scrolling and earcons are outside the state modelled.            *)
(***************************************************************************)
Effects(cmd, n) ==
  [cmd |-> cmd, before |-> n, nav |-> n, ret |-> "undefined", spoken |-> <<>>,
   finishes |-> 0, moves |-> <<>>, marks |-> 0, found |-> "no search",
   log |-> <<>>, guard |-> 0, expired |-> 0]

\* The command made a call.
called(e, name) == [e EXCEPT !.log = Append(@, name)]

Returned(b) == IF b THEN "true" ELSE "false"

\* A command that logs the call but enters no guarded region.
markedInLogOnly(e) == called(e, "markInUserCommand_")

\* cvox.ChromeVox.tts.speak(text, queueMode, ...)
speak(e, text, queueMode) ==
  [called(e, "speak")
     EXCEPT !.spoken = Append(@, [text |-> text, queueMode |-> queueMode, at |-> 0])]

\* navigationManager.next(true) or previous(true), called by a command.
move(e, forwards) ==
  [called(e, IF forwards THEN "next" ELSE "previous")
     EXCEPT !.nav = IF forwards THEN navNext(e.nav).nav ELSE navPrevious(e.nav).nav,
            !.moves = Append(@, IF forwards THEN "next" ELSE "previous")]
succeeded(e, forwards) == IF forwards THEN navNext(e.nav).ok ELSE navPrevious(e.nav).ok

\* markInUserCommand_() called by a command.
marked(e) == [called(e, "markInUserCommand_") EXCEPT !.marks = @ + 1]

\* A finish that hands every utterance to the speech engine with queue mode 0.
finishNavCommandInterruptingEach(e, messagePrefixStr) ==
  LET descriptionArray == getCurrentDescription(e.nav)
      began == called(e, "finishNavCommand")
      prefixed == IF messagePrefixStr # "" THEN speak(began, messagePrefixStr, 0) ELSE began
      descriptions ==
        [i \in 1..Len(descriptionArray) |->
           [text |-> descriptionArray[i].text, queueMode |-> 0,
            at |-> descriptionArray[i].at]]
  IN [prefixed EXCEPT !.spoken = @ \o descriptions, !.finishes = @ + 1]

finishNavCommand(e, messagePrefixStr) ==
  LET descriptionArray == getCurrentDescription(e.nav)
      began == called(e, "finishNavCommand")
      queueMode == IF messagePrefixStr # "" THEN 1 ELSE 0
      prefixed == IF messagePrefixStr # "" THEN speak(began, messagePrefixStr, 0) ELSE began
      descriptions ==
        [i \in 1..Len(descriptionArray) |->
           [text |-> descriptionArray[i].text,
            queueMode |-> IF i = 1 THEN queueMode ELSE 1,
            at |-> descriptionArray[i].at]]
  IN [prefixed EXCEPT !.spoken = @ \o descriptions, !.finishes = @ + 1]

\* A generic move that is never undone at a cell boundary.
stepWithoutUndo(e, forwards) ==
  [finishNavCommand(move(marked(e), forwards), "")
     EXCEPT !.ret = Returned(~succeeded(marked(e), forwards))]

\* A generic move that always returns false.
stepReturningFalse(e, forwards) ==
  LET moved == move(marked(e), forwards)
  IN IF inTableMode(moved.nav) /\ ~checkCellBoundaries(moved.nav)
     THEN [finishNavCommand(move(moved, ~forwards), "End of cell. ") EXCEPT !.ret = "false"]
     ELSE [finishNavCommand(moved, "") EXCEPT !.ret = "false"]

\* commands['forward'] (forwards) and commands['backward'] (not forwards).
step(e, forwards) ==
  LET moved == move(marked(called(e, IF forwards THEN "forward" ELSE "backward")), forwards)
  IN IF inTableMode(moved.nav) /\ ~checkCellBoundaries(moved.nav)
     THEN [finishNavCommand(move(moved, ~forwards), "End of cell. ")
             EXCEPT !.ret = Returned(~succeeded(moved, ~forwards))]
     ELSE [finishNavCommand(moved, "")
             EXCEPT !.ret = Returned(~succeeded(marked(e), forwards))]

forward(e) == step(e, TRUE)
backward(e) == step(e, FALSE)

\* A search that replays the arrival even when nothing was found.
findAndReplayAlways(e, forwards, predicate, errorStr) ==
  LET f == IF forwards THEN findNext(e.nav, predicate) ELSE findPrevious(e.nav, predicate)
      looked == called(marked(e), IF forwards THEN "findNext" ELSE "findPrevious")
      searched == [looked EXCEPT !.nav = f.nav,
                                 !.found = IF f.ok THEN "match" ELSE "no match"]
  IN [forward(move(IF f.ok THEN searched ELSE speak(searched, errorStr, 0), FALSE))
        EXCEPT !.ret = "undefined"]

\* A search that replays the forward command from the match, without the step back.
findWithoutStepBack(e, forwards, predicate, errorStr) ==
  LET f == IF forwards THEN findNext(e.nav, predicate) ELSE findPrevious(e.nav, predicate)
      looked == called(marked(e), IF forwards THEN "findNext" ELSE "findPrevious")
      searched == [looked EXCEPT !.nav = f.nav,
                                 !.found = IF f.ok THEN "match" ELSE "no match"]
  IN IF ~f.ok THEN speak(searched, errorStr, 0)
     ELSE [forward(searched) EXCEPT !.ret = "undefined"]

\* findNextAndSpeak_ (forwards) and findPreviousAndSpeak_ (not forwards).
findAndSpeak_(e, forwards, predicate, errorStr) ==
  LET f == IF forwards THEN findNext(e.nav, predicate) ELSE findPrevious(e.nav, predicate)
      looked == called(marked(e), IF forwards THEN "findNext" ELSE "findPrevious")
      searched == [looked EXCEPT !.nav = f.nav,
                                 !.found = IF f.ok THEN "match" ELSE "no match"]
  IN IF ~f.ok THEN speak(searched, errorStr, 0)
     ELSE [forward(move(searched, FALSE)) EXCEPT !.ret = "undefined"]

nextHeading(e) ==
  [findAndSpeak_(e, TRUE, "heading", "No next heading.") EXCEPT !.ret = "false"]
previousHeading(e) ==
  [findAndSpeak_(e, FALSE, "heading", "No previous heading.") EXCEPT !.ret = "false"]

\* An enterTable that finishes the command whether or not a table was found.
enterTableAlwaysFinishing(e) ==
  IF navEnterTable(e.nav).ok
  THEN finishNavCommand([e EXCEPT !.nav = navEnterTable(e.nav).nav], "Inside table ")
  ELSE finishNavCommand(speak(e, "No table found.", 0), "")

enterTable(e) ==
  IF navEnterTable(e.nav).ok
  THEN finishNavCommand([e EXCEPT !.nav = navEnterTable(e.nav).nav], "Inside table ")
  ELSE speak(e, "No table found.", 0)

\* An exitTable that announces the exit and leaves the manager alone.
exitTableAnnouncedOnly(e) == finishNavCommand(e, "Leaving table. ")

exitTable(e) == finishNavCommand([e EXCEPT !.nav = navExitTable(e.nav)], "Leaving table. ")

\* The move a table command asks of the manager.
cellMove(n, direction) ==
  CASE direction = "previousRow" -> navPreviousRow(n)
    [] direction = "nextRow" -> navNextRow(n)
    [] direction = "previousCol" -> navPreviousCol(n)
    [] direction = "nextCol" -> navNextCol(n)

\* What a table command says when the manager reports no cell that way.
noCell(direction) ==
  CASE direction = "previousRow" -> "No cell above."
    [] direction = "nextRow" -> "No cell below."
    [] direction = "previousCol" -> "No cell on left."
    [] direction = "nextCol" -> "No cell on right."

\* A table command that finishes the command after the message at a grid edge.
tableCommandFinishingAtEdge(e, direction) ==
  IF ~inTableMode(e.nav) THEN speak(e, "Not inside table.", 0)
  ELSE IF cellMove(e.nav, direction).ok
  THEN finishNavCommand([e EXCEPT !.nav = cellMove(e.nav, direction).nav], "")
  ELSE finishNavCommand(speak(e, noCell(direction), 0), "")

\* commands['previousRow'], ['nextRow'], ['previousCol'] and ['nextCol'].
tableCommand(e, direction) ==
  IF ~inTableMode(e.nav) THEN speak(e, "Not inside table.", 0)
  ELSE IF cellMove(e.nav, direction).ok
  THEN finishNavCommand([e EXCEPT !.nav = cellMove(e.nav, direction).nav], "")
  ELSE speak(e, noCell(direction), 0)

previousRow(e) == tableCommand(e, "previousRow")
nextRow(e) == tableCommand(e, "nextRow")
previousCol(e) == tableCommand(e, "previousCol")
nextCol(e) == tableCommand(e, "nextCol")

\* commands['previousGranularity'] (up) and commands['nextGranularity'] (not up):
\* the granularity changes and its label prefixes the description.
changeGranularity(e, up) ==
  LET changed == [called(e, IF up THEN "up" ELSE "down")
                    EXCEPT !.nav = IF up THEN navUp(e.nav) ELSE navDown(e.nav)]
      strategy == IF getStrategy(changed.nav) = "SELECTION"
                  THEN getGranularity(changed.nav)
                  ELSE getStrategy(changed.nav)
  IN [finishNavCommand(changed, strategy \o " ") EXCEPT !.ret = "false"]

previousGranularity(e) == changeGranularity(e, TRUE)
nextGranularity(e) == changeGranularity(e, FALSE)

\* The pages with a table and no heading, and the pages with headings around and
\* inside a table of one row.
TablePages ==
  [rows : 1..MaxRows, cols : 1..MaxCols, cellLen : 1..MaxCellLen,
   pre : {0, 1}, post : {0, 1}, headings : {{}}]
SearchPages ==
  {[rows |-> 1, cols |-> MaxCols, cellLen |-> 1, pre |-> MaxCols, post |-> MaxCols + 1,
    headings |-> h] :
     h \in {s \in SUBSET (1..(3 * MaxCols + 1)) : Cardinality(s) <= MaxHeadings}}

\* A command has run: the manager and the guard are as it left them.
Run(e) ==
  /\ Len(calls) + e.marks <= MaxCommands
  /\ nav' = e.nav
  /\ out' = [e EXCEPT !.guard = userCommandLevel_, !.expired = Len(fired)]
  /\ userCommandLevel_' =
       IF e.marks = 0 THEN userCommandLevel_
       ELSE IF e.marks = 1 THEN Raised(userCommandLevel_)
       ELSE Raised(Raised(userCommandLevel_))
  /\ timers' = timers \o [i \in 1..e.marks |-> [id |-> Len(calls) + i, due |-> now + Delay]]
  /\ calls' = calls \o [i \in 1..e.marks |-> now]
  /\ UNCHANGED <<now, fired, punctual, doc, walkerVars, predicateVars, inputVars>>

Forward == Run(forward(Effects("forward", nav)))
Backward == Run(backward(Effects("backward", nav)))
NextHeading == Run(nextHeading(Effects("nextHeading", nav)))
PreviousHeading == Run(previousHeading(Effects("previousHeading", nav)))
EnterTable == Run(enterTable(Effects("enterTable", nav)))
ExitTable == Run(exitTable(Effects("exitTable", nav)))
PreviousRow == Run(previousRow(Effects("previousRow", nav)))
NextRow == Run(nextRow(Effects("nextRow", nav)))
PreviousCol == Run(previousCol(Effects("previousCol", nav)))
NextCol == Run(nextCol(Effects("nextCol", nav)))
PreviousGranularity == Run(previousGranularity(Effects("previousGranularity", nav)))
NextGranularity == Run(nextGranularity(Effects("nextGranularity", nav)))

\* The user has reached some position of the page by earlier commands, whose guard
\* windows have closed; no table mode yet.
TableInit ==
  /\ doc \in TablePages
  /\ \E p \in 1..(doc.pre + doc.rows * doc.cols * doc.cellLen + doc.post) :
       /\ nav = Browsing(p)
       /\ out = Effects("none", Browsing(p))

SearchInit ==
  /\ doc \in SearchPages
  /\ \E p \in 1..(doc.pre + doc.rows * doc.cols * doc.cellLen + doc.post) :
       /\ nav = Browsing(p)
       /\ out = Effects("none", Browsing(p))

\* One page, with a heading in the second cell of its table, the cursor in the table.
SearchGuardInit ==
  /\ doc \in {d \in SearchPages : d.headings = {d.pre + 2}}
  /\ \E p \in (doc.pre + 1)..(doc.pre + doc.rows * doc.cols * doc.cellLen) :
       /\ nav = Browsing(p)
       /\ out = Effects("none", Browsing(p))

\* As TableInit, at any granularity.
GranularityInit ==
  /\ doc \in TablePages
  /\ \E p \in 1..(doc.pre + doc.rows * doc.cols * doc.cellLen + doc.post),
        level \in 1..Len(Granularities) :
       /\ nav = [Browsing(p) EXCEPT !.level = level]
       /\ out = Effects("none", nav)

TableNext ==
  \/ Forward
  \/ Backward
  \/ EnterTable
  \/ ExitTable
  \/ PreviousRow
  \/ NextRow
  \/ PreviousCol
  \/ NextCol

SearchNext ==
  \/ Forward
  \/ Backward
  \/ NextHeading
  \/ PreviousHeading
  \/ EnterTable
  \/ ExitTable

\* The search commands and the host that runs their expiries.
SearchGuardNext ==
  \/ NextHeading
  \/ PreviousHeading
  \/ userCommandExpiry /\ UNCHANGED <<walkerVars, predicateVars, commandVars, inputVars>>
  \/ Tick /\ UNCHANGED <<walkerVars, predicateVars, commandVars, inputVars>>

GranularityNext ==
  \/ PreviousGranularity
  \/ NextGranularity
  \/ EnterTable
  \/ ExitTable

TableSpecInit == GuardInit /\ WalkerIdle /\ PredicateIdle /\ TableInit /\ InputIdle
SearchSpecInit == GuardInit /\ WalkerIdle /\ PredicateIdle /\ SearchInit /\ InputIdle
SearchGuardSpecInit ==
  GuardInit /\ WalkerIdle /\ PredicateIdle /\ SearchGuardInit /\ InputIdle
GranularitySpecInit ==
  GuardInit /\ WalkerIdle /\ PredicateIdle /\ GranularityInit /\ InputIdle

TableSpec == TableSpecInit /\ [][TableNext]_vars
SearchSpec == SearchSpecInit /\ [][SearchNext]_vars
GranularitySpec == GranularitySpecInit /\ [][GranularityNext]_vars
SearchGuardSpec == SearchGuardSpecInit /\ [][SearchGuardNext]_vars

\* The prefixes finishNavCommand is handed: none, or an announcement.
Prefixes == {"", "Inside table "}

\* finishNavCommand called on its own, as the keyboard handler calls it after a
\* jump to the target of an internal link; the prefix it was handed is kept at the
\* head of the log.
FinishNavCommand ==
  \E messagePrefixStr \in Prefixes :
    Run(finishNavCommand(called(Effects("finishNavCommand", nav), messagePrefixStr),
                         messagePrefixStr))

\* A page of one cell, the manager at any position of it or at none (position 0),
\* after a move that changed up to MaxDelta ancestors.
FinishInit ==
  /\ doc \in {page \in TablePages : page.rows = 1 /\ page.cols = 1}
  /\ \E p \in 0..(doc.pre + doc.cellLen + doc.post), changed \in 0..MaxDelta :
       /\ nav = [Browsing(p) EXCEPT !.delta = [i \in 1..changed |-> HeadingNode]]
       /\ out = Effects("none", nav)

FinishNext == FinishNavCommand

FinishSpecInit == GuardInit /\ WalkerIdle /\ PredicateIdle /\ FinishInit /\ InputIdle

FinishSpec == FinishSpecInit /\ [][FinishNext]_vars

(***************************************************************************)
(* Interframe communication (cvox.Interframe).  A parent window embeds one *)
(* iframe; both run the module.  A message is an object with the keys      *)
(* 'command', 'id' and 'sourceId', a key without a value holding           *)
(* undefined.  postMessage is asynchronous: what a window was sent waits   *)
(* in its inbox until its message listener runs.                           *)
(***************************************************************************)

MaxPosts == 2
MaxListeners == 2

Undefined == "undefined"
IF_MSG_PREFIX == "cvox.INTERFRAME:"
SET_ID == "cvox.INTERFRAME_SET_ID"

Windows == {"parent", "child"}
Ids == {"1", "2"}
Keys == <<"command", "id", "sourceId">>
Message(command, id, sourceId) == [command |-> command, id |-> id, sourceId |-> sourceId]

\* The messages a caller sends: a reply without an 'id' and one that has an 'id' of
\* the caller's own.
Payloads == {Message("reply", Undefined, Undefined), Message("reply", "9", Undefined)}

\* cvox.ChromeVoxJSON.stringify: the key-value pairs of the object in order, a key
\* whose value is undefined left out.
stringify(message) ==
  LET pairs == [i \in 1..Len(Keys) |-> <<Keys[i], message[Keys[i]]>>]
      hasValue(pair) == pair[2] # Undefined
  IN SelectSeq(pairs, hasValue)

\* cvox.ChromeVoxJSON.parse: the object whose keys are those of the text.
parse(text) ==
  [key \in {Keys[i] : i \in 1..Len(Keys)} |->
     IF \E i \in 1..Len(text) : text[i][1] = key
     THEN text[CHOOSE i \in 1..Len(text) : text[i][1] = key][2]
     ELSE Undefined]

\* What postMessage carries: a string, made of a prefix and a text, or another value.
Data(isString, prefix, text) == [isString |-> isString, prefix |-> prefix, text |-> text]
encodedMessage(message) == Data(TRUE, IF_MSG_PREFIX, stringify(message))

\* What a page script posts: an object, and a string without the prefix.
ForeignData ==
  {Data(FALSE, "", <<>>), Data(TRUE, "page:", stringify(Message(SET_ID, "2", Undefined)))}

\* cvox.Interframe.isIframe: window != window.parent.
isIframe(w) == w = "child"

\* window.postMessage(data, '*') on window w.  The history mark says which ID the
\* sender held from its parent when it sent a message with sendMessageToParentWindow.
postMessage(f, w, data, heldId) ==
  [f EXCEPT ![w].inbox = Append(@, [data |-> data, heldId |-> heldId]),
            !.posts = @ + 1]

\* cvox.Interframe.sendMessageToWindow.
sendMessageToWindow(f, message, w, heldId) == postMessage(f, w, encodedMessage(message), heldId)

\* cvox.Interframe.sendMessageToIFrame: directly when the content window can be
\* reached, else by a script injected into the page, which finds the iframe by its id
\* or by a class name given to it now; either way the same string is posted.
sendMessageToIFrame(f, message) ==
  IF f.iframe.contentWindow THEN sendMessageToWindow(f, message, "child", Undefined)
  ELSE IF f.iframe.hasId
       THEN postMessage(f, "child", encodedMessage(message), Undefined)
       ELSE postMessage([f EXCEPT !.iframe.className = @ \cup {message.id}],
                        "child", encodedMessage(message), Undefined)

\* cvox.Interframe.sendMessageToParentWindow, called in window w.
sendMessageToParentWindow(f, w, message) ==
  IF ~isIframe(w) THEN f
  ELSE sendMessageToWindow(f, [message EXCEPT !.sourceId = f[w].id], "parent", f[w].id)

\* cvox.Interframe.sendIdToIFrame.
sendIdToIFrame(f, id) ==
  [sendMessageToIFrame(f, Message(SET_ID, id, Undefined)) EXCEPT !.assigned = id]

\* cvox.Interframe.addListener in window w: listeners are named in the order of
\* their registration.
addListener(f, w) == [f EXCEPT ![w].listeners = Append(@, Len(@) + 1)]

\* A message listener that sets Interframe.id after the listeners have run.
messageListenerSettingIdLast(f, w) ==
  LET event == Head(f[w].inbox)
      taken == [f EXCEPT ![w].inbox = Tail(@), ![w].events = @ + 1]
      message == parse(event.data.text)
      told == [taken EXCEPT ![w].heard =
                 @ \o [i \in 1..Len(f[w].listeners) |->
                         [listener |-> f[w].listeners[i], message |-> message,
                          event |-> taken[w].events, id |-> f[w].id,
                          heldId |-> event.heldId]]]
  IN IF event.data.isString /\ event.data.prefix = IF_MSG_PREFIX
     THEN IF message.command = SET_ID THEN [told EXCEPT ![w].id = message.id] ELSE told
     ELSE taken

\* cvox.Interframe.messageListener in window w, for the event at the head of its
\* inbox.
messageListener(f, w) ==
  LET event == Head(f[w].inbox)
      taken == [f EXCEPT ![w].inbox = Tail(@), ![w].events = @ + 1]
      message == parse(event.data.text)
      set == IF message.command = SET_ID THEN [taken EXCEPT ![w].id = message.id] ELSE taken
  IN IF event.data.isString /\ event.data.prefix = IF_MSG_PREFIX
     THEN [set EXCEPT ![w].heard =
             @ \o [i \in 1..Len(f[w].listeners) |->
                     [listener |-> f[w].listeners[i], message |-> message,
                      event |-> taken[w].events, id |-> set[w].id,
                      heldId |-> event.heldId]]]
     ELSE taken

\* A window in which the module has just been initialised.
Window == [id |-> Undefined, listeners |-> <<>>, inbox |-> <<>>, heard |-> <<>>, events |-> 0]

InterframeInit ==
  \E contentWindow, hasId \in BOOLEAN :
    frames = [parent |-> Window, child |-> Window,
              iframe |-> [contentWindow |-> contentWindow, hasId |-> hasId, className |-> {}],
              assigned |-> Undefined, posts |-> 0]

AddListener ==
  /\ \E w \in Windows :
       /\ Len(frames[w].listeners) < MaxListeners
       /\ frames' = addListener(frames, w)
  /\ UNCHANGED <<guardVars, walkerVars, predicateVars, commandVars, keys, powerkey>>

SendIdToIFrame ==
  /\ frames.posts < MaxPosts
  /\ \E id \in Ids : frames' = sendIdToIFrame(frames, id)
  /\ UNCHANGED <<guardVars, walkerVars, predicateVars, commandVars, keys, powerkey>>

SendMessageToIFrame ==
  /\ frames.posts < MaxPosts
  /\ \E message \in Payloads : frames' = sendMessageToIFrame(frames, message)
  /\ UNCHANGED <<guardVars, walkerVars, predicateVars, commandVars, keys, powerkey>>

SendMessageToParentWindow ==
  /\ frames.posts < MaxPosts
  /\ \E w \in Windows, message \in Payloads :
       frames' = sendMessageToParentWindow(frames, w, message)
  /\ UNCHANGED <<guardVars, walkerVars, predicateVars, commandVars, keys, powerkey>>

\* A script of the page posts something of its own to a window.
PostForeign ==
  /\ frames.posts < MaxPosts
  /\ \E w \in Windows, data \in ForeignData :
       frames' = postMessage(frames, w, data, Undefined)
  /\ UNCHANGED <<guardVars, walkerVars, predicateVars, commandVars, keys, powerkey>>

\* The host delivers the oldest message waiting for a window.
MessageListener ==
  /\ \E w \in Windows :
       /\ frames[w].inbox # <<>>
       /\ frames' = messageListener(frames, w)
  /\ UNCHANGED <<guardVars, walkerVars, predicateVars, commandVars, keys, powerkey>>

InterframeNext ==
  \/ AddListener
  \/ SendIdToIFrame
  \/ SendMessageToIFrame
  \/ SendMessageToParentWindow
  \/ PostForeign
  \/ MessageListener

InterframeSpecInit ==
  /\ GuardInit /\ WalkerIdle /\ PredicateIdle /\ CommandIdle /\ InterframeInit
  /\ KeysIdle /\ PowerKeyIdle

InterframeSpec == InterframeSpecInit /\ [][InterframeNext]_vars

(***************************************************************************)
(* The keyboard handler (cvox.ChromeVoxKbHandler).  A key event is         *)
(* described by what the handler reads of it and of its surroundings: its  *)
(* key code, the command the key map binds its key sequence to ("" for     *)
(* none), whether a longer key sequence is in progress after it, whether   *)
(* the ChromeVox modifier is held, whether the command table has a         *)
(* function of that name and what the function returns, and the element    *)
(* that has the focus.                                                     *)
(***************************************************************************)

Enter == 13
KeyCodes == {Enter, 65}
FunctionNames == {"", "toggleChromeVox", "forward", "skipForward"}
ActiveElements == {"null", "A internal, target found", "A internal", "INPUT", "DIV"}

\* What the handler never reads of an event has one value: the focus of a key
\* other than Enter, the function of a key bound to nothing, the return value of a
\* function that does not exist.
KeyEvents ==
  {evt \in [keyCode : KeyCodes, functionName : FunctionNames, sequencing : BOOLEAN,
            cvoxModifier : BOOLEAN, hasFunc : BOOLEAN, funcReturns : BOOLEAN,
            activeElement : ActiveElements] :
     /\ evt.keyCode # Enter => evt.activeElement = "DIV"
     /\ evt.functionName = "" => ~evt.hasFunc
     /\ ~evt.hasFunc => ~evt.funcReturns}

\* The handler has returned b.
KeyReturned(k, b) == [k EXCEPT !.ret = Returned(b)]

\* A command function of the command table has been invoked; toggleChromeVox turns
\* ChromeVox on or off.
invoke(k, functionName) ==
  [k EXCEPT !.commands = Append(@, functionName),
            !.isActive = IF functionName = "toggleChromeVox" THEN ~@ ELSE @]

\* cvox.ChromeVoxKbHandler.mustPassEnterKey.
mustPassEnterKey(activeElement) ==
  IF activeElement = "null" THEN FALSE ELSE activeElement = "INPUT"

\* The Enter key with ChromeVox active (lines 122-148).
enterKey(k, evt) ==
  IF evt.activeElement = "null" THEN [k EXCEPT !.ret = "TypeError"]
  ELSE IF evt.activeElement = "A internal, target found"
       THEN KeyReturned([k EXCEPT !.synced = TRUE], TRUE)
       ELSE IF mustPassEnterKey(evt.activeElement) THEN KeyReturned(k, TRUE)
            ELSE KeyReturned(invoke(k, "actOnCurrentItem"), FALSE)

\* A key looked up in the key map (lines 151-204).
boundKey(k, evt) ==
  LET functionName == IF k.handlerKeyMap THEN evt.functionName ELSE ""
      looked == [k EXCEPT !.functionName = functionName]
      stopped == IF functionName \notin {"skipForward", "skipBackward"}
                 THEN [looked EXCEPT !.stopped = TRUE] ELSE looked
      returnValue == IF evt.hasFunc THEN evt.funcReturns ELSE ~evt.cvoxModifier
      done == IF evt.hasFunc THEN invoke(stopped, functionName) ELSE stopped
  IN IF functionName = "" THEN KeyReturned(looked, ~evt.sequencing)
     ELSE IF ~k.isActive /\ functionName # "toggleChromeVox"
          THEN KeyReturned(looked, TRUE)
          ELSE KeyReturned(done, IF k.entireDocumentIsHidden THEN TRUE ELSE returnValue)

\* A handler that takes the Enter key for itself also while ChromeVox is off.
listenerTakingEnterAlways(k, evt) ==
  IF evt.keyCode = Enter THEN enterKey(k, evt) ELSE boundKey(k, evt)

\* cvox.ChromeVoxKbHandler.basicKeyDownActionsListener.
basicKeyDownActionsListener(k, evt) ==
  IF evt.keyCode = Enter /\ k.isActive THEN enterKey(k, evt) ELSE boundKey(k, evt)

\* The handler before a key event: no command looked up or invoked, nothing
\* returned.
Listening(k) ==
  [k EXCEPT !.commands = <<>>, !.stopped = FALSE, !.synced = FALSE, !.ret = "none",
            !.functionName = "", !.wasActive = k.isActive]

NoKeyEvent ==
  [keyCode |-> 0, functionName |-> "", sequencing |-> FALSE, cvoxModifier |-> FALSE,
   hasFunc |-> FALSE, funcReturns |-> FALSE, activeElement |-> "null"]

KeyboardInit ==
  \E isActive, entireDocumentIsHidden \in BOOLEAN :
    keys = [isActive |-> isActive, wasActive |-> isActive,
            entireDocumentIsHidden |-> entireDocumentIsHidden,
            handlerKeyMap |-> FALSE, evt |-> NoKeyEvent, commands |-> <<>>,
            functionName |-> "", stopped |-> FALSE, synced |-> FALSE, ret |-> "none"]

\* cvox.ChromeVoxKbHandler.loadKeyToFunctionsTable.
LoadKeyToFunctionsTable ==
  /\ keys' = [keys EXCEPT !.handlerKeyMap = TRUE]
  /\ UNCHANGED <<guardVars, walkerVars, predicateVars, commandVars, frames, powerkey>>

\* The user presses a key.
BasicKeyDownActionsListener ==
  /\ \E evt \in KeyEvents :
       keys' = basicKeyDownActionsListener([Listening(keys) EXCEPT !.evt = evt], evt)
  /\ UNCHANGED <<guardVars, walkerVars, predicateVars, commandVars, frames, powerkey>>

KeyboardNext ==
  \/ LoadKeyToFunctionsTable
  \/ BasicKeyDownActionsListener

KeyboardSpecInit ==
  /\ GuardInit /\ WalkerIdle /\ PredicateIdle /\ CommandIdle /\ FramesIdle
  /\ KeyboardInit /\ PowerKeyIdle

KeyboardSpec == KeyboardSpecInit /\ [][KeyboardNext]_vars

(***************************************************************************)
(* The PowerKey overlay.  The user opens it with showPowerKey, which saves  *)
(* the current node, and selects a completion in it; the action handler    *)
(* hides the overlay and hands the selection to the action callback.  Both  *)
(* the return of the focus and the action are left to window.setTimeout.    *)
(***************************************************************************)

MaxSelections == 2
MaxShows == 2
MaxClock == 3

\* window.setTimeout(callback, delay): the callback is scheduled after the ones
\* scheduled before it, to run delay milliseconds from now or later.  It is marked
\* with the selection whose action handler scheduled it, 0 outside the handler.
setTimeout(p, kind, delay) ==
  [p EXCEPT !.timeouts =
     Append(@, [kind |-> kind, selection |-> p.handling, delay |-> delay,
                due |-> p.clock + delay])]

\* A hide that returns the focus two milliseconds later.
hidePowerKeyFocusingLate(p) ==
  IF ~p.visible THEN p
  ELSE LET hidden == [p EXCEPT !.visible = FALSE]
       IN IF p.savedCurrentNode # Null THEN setTimeout(hidden, "focus", 2) ELSE hidden

\* cvox.ChromeVoxUserCommands.hidePowerKey
hidePowerKey(p) ==
  IF ~p.visible THEN p
  ELSE LET hidden == [p EXCEPT !.visible = FALSE]
       IN IF p.savedCurrentNode # Null THEN setTimeout(hidden, "focus", 0) ELSE hidden

\* cvox.ChromeVoxUserCommands.powerkeyActionHandler: one more selection; whether it
\* found the overlay visible with a saved node is kept for the selection.
powerkeyActionHandler(p) ==
  LET selected ==
        [p EXCEPT !.selections = @ + 1,
                  !.handling = p.selections + 1,
                  !.dismissed = Append(@, p.visible /\ p.savedCurrentNode # Null)]
      scheduled == setTimeout(hidePowerKey(selected), "action", 1)
  IN [scheduled EXCEPT !.handling = 0]

\* commands['showPowerKey']: the node navigationManager.getCurrentNode() returned
\* is saved and the overlay shown.
showPowerKey(p, currentNode) ==
  [p EXCEPT !.savedCurrentNode = currentNode, !.visible = TRUE, !.shows = @ + 1]

\* The host may run a scheduled callback once its time has come and every callback
\* scheduled before it with a delay no longer than its own has run.
MayRun(p, i) ==
  /\ p.timeouts[i].due <= p.clock
  /\ \A j \in 1..(i - 1) : p.timeouts[j].delay > p.timeouts[i].delay

\* The function handed to setTimeout runs: the focus returns to the saved node, or
\* the action callback, if there is one, is called with the selection.
runTimeout(p, i) ==
  LET timeout == p.timeouts[i]
      ran == [p EXCEPT !.timeouts = SubSeq(@, 1, i - 1) \o SubSeq(@, i + 1, Len(@)),
                       !.ran = Append(@, [kind |-> timeout.kind,
                                          selection |-> timeout.selection])]
  IN IF timeout.kind = "action" /\ p.powerkeyActionCallback
     THEN [ran EXCEPT !.invoked = Append(@, timeout.selection)]
     ELSE ran

\* The state initPowerKey leaves: the overlay hidden, the callback it was given or
\* none, nothing scheduled.
PowerKeyInit ==
  \E callback \in BOOLEAN :
    powerkey = [visible |-> FALSE, savedCurrentNode |-> Null,
                powerkeyActionCallback |-> callback, selections |-> 0, shows |-> 0,
                handling |-> 0,
                dismissed |-> <<>>, timeouts |-> <<>>, clock |-> 0, ran |-> <<>>,
                invoked |-> <<>>]

ShowPowerKey ==
  /\ powerkey.shows < MaxShows
  /\ \E currentNode \in {Null, 1} : powerkey' = showPowerKey(powerkey, currentNode)
  /\ UNCHANGED <<guardVars, walkerVars, predicateVars, commandVars, frames, keys>>

HidePowerKey ==
  /\ powerkey' = hidePowerKey(powerkey)
  /\ UNCHANGED <<guardVars, walkerVars, predicateVars, commandVars, frames, keys>>

PowerkeyActionHandler ==
  /\ powerkey.selections < MaxSelections
  /\ powerkey' = powerkeyActionHandler(powerkey)
  /\ UNCHANGED <<guardVars, walkerVars, predicateVars, commandVars, frames, keys>>

RunTimeout ==
  /\ \E i \in 1..Len(powerkey.timeouts) :
       /\ MayRun(powerkey, i)
       /\ powerkey' = runTimeout(powerkey, i)
  /\ UNCHANGED <<guardVars, walkerVars, predicateVars, commandVars, frames, keys>>

\* A millisecond passes.
PowerKeyTick ==
  /\ powerkey.clock < MaxClock
  /\ powerkey' = [powerkey EXCEPT !.clock = @ + 1]
  /\ UNCHANGED <<guardVars, walkerVars, predicateVars, commandVars, frames, keys>>

PowerKeyNext ==
  \/ ShowPowerKey
  \/ HidePowerKey
  \/ PowerkeyActionHandler
  \/ RunTimeout
  \/ PowerKeyTick

PowerKeySpecInit ==
  /\ GuardInit /\ WalkerIdle /\ PredicateIdle /\ CommandIdle /\ FramesIdle /\ KeysIdle
  /\ PowerKeyInit

PowerKeySpec == PowerKeySpecInit /\ [][PowerKeyNext]_vars

(***************************************************************************)
(* Properties of the guard.                                                *)
(***************************************************************************)

\* C1: two overlapping regions, entered at c1 and at c2 < c1 + 100 (the case of the
\* claim: 0 and 10), each expiry running at its due time: isInUserCommand() is true
\* at every time before c2 + 100 (110) and false at every time after it; at the
\* instant c2 + 100 itself it is true until the second expiry has run and false from
\* then on.
C1_OverlappingRegions ==
  punctual =>
    /\ (Len(calls) = 1 /\ now < calls[1] + Delay => isInUserCommand)
    /\ (Len(calls) = 2 /\ calls[2] < calls[1] + Delay =>
          /\ (now < calls[2] + Delay => isInUserCommand)
          /\ (now > calls[2] + Delay => ~isInUserCommand)
          /\ (now = calls[2] + Delay => (isInUserCommand <=> timers # <<>>)))

C1_Witness ==
  /\ calls = <<0, 10>>
  /\ punctual
  /\ now = 110
  /\ fired = <<1, 2>>
  /\ ~isInUserCommand

\* C2: the counter equals the number of markInUserCommand_ calls whose expiry has
\* not yet run, it is never negative, and isInUserCommand() is true exactly when
\* that number is greater than zero.
C2_LevelCountsPending ==
  /\ userCommandLevel_ = Len(calls) - Len(fired)
  /\ userCommandLevel_ = Len(timers)
  /\ userCommandLevel_ >= 0
  /\ (isInUserCommand <=> Len(calls) - Len(fired) > 0)

C2_Witness ==
  /\ Len(fired) = 1
  /\ Len(calls) = 3
  /\ userCommandLevel_ = 2

PendingIds == {timers[i].id : i \in 1..Len(timers)}
FiredIds == {fired[i] : i \in 1..Len(fired)}

\* Each increment has exactly one expiry, pending or run, and none ran twice.
OneExpiryPerIncrement ==
  /\ PendingIds \cup FiredIds = 1..Len(calls)
  /\ PendingIds \cap FiredIds = {}
  /\ Cardinality(PendingIds) = Len(timers)
  /\ Cardinality(FiredIds) = Len(fired)

\* An expiry leaves the queue only by running, no earlier than its due time, and
\* then lowers the counter by one; nothing else lowers the counter.
ExpiryOnlyByFiring ==
  /\ (\E i \in 1..Len(timers) : timers[i].id \notin PendingIds') =>
        /\ fired' = Append(fired, Head(timers).id)
        /\ timers' = Tail(timers)
        /\ now >= Head(timers).due
        /\ userCommandLevel_' = userCommandLevel_ - 1
  /\ userCommandLevel_' < userCommandLevel_ => Len(fired') = Len(fired) + 1

\* C3: once every scheduled expiry has run the guard is back at 0 and
\* isInUserCommand() is false; each increment has exactly one expiry, which is never
\* removed before it runs, never runs before its due time and never runs twice.
C3_LetItExpire ==
  /\ [](OneExpiryPerIncrement /\ (timers = <<>> => userCommandLevel_ = 0 /\ ~isInUserCommand))
  /\ [][ExpiryOnlyByFiring]_vars

C3_Witness ==
  /\ Len(calls) = 2
  /\ Len(fired) = 2
  /\ timers = <<>>
  /\ userCommandLevel_ = 0

(***************************************************************************)
(* Properties of the layout-line walker.                                   *)
(***************************************************************************)

\* Structural lines i and j have bounding rectangles with the same bottom.
SameBottom(i, j) == rects[i].bottom = rects[j].bottom

\* The first and the last line of the maximal run of consecutive structural lines
\* around line l in which every line has the same bottom as its neighbour.
RunFirst(l) ==
  CHOOSE a \in 1..l :
    /\ \A k \in a..(l - 1) : SameBottom(k, k + 1)
    /\ (a = 1 \/ ~SameBottom(a - 1, a))
RunLast(l) ==
  CHOOSE b \in l..NumLines :
    /\ \A k \in l..(b - 1) : SameBottom(k, k + 1)
    /\ (b = NumLines \/ ~SameBottom(b, b + 1))

Bottoms == [i \in 1..NumLines |-> rects[i].bottom]

\* The structural lines a selection spans.
FirstLine(sel) == LineOf(absStart(sel))
LastLine(sel) == LineOf(absEnd(sel))
Covers(sel, i) == FirstLine(sel) <= i /\ i <= LastLine(sel)

\* The selection spans whole structural lines a to b.
SpansLines(sel, a, b) == absStart(sel) = LineStart(a) /\ absEnd(sel) = LineEnd(b)

\* C4: when the structural-line walker syncs s to a line L, sync(s) spans exactly
\* the maximal run of consecutive structural lines around L whose neighbours have
\* equal bottoms, from the start of its first line to the end of its last; for
\* bottoms [10, 10, 20] and s on line 1 that is lines 1 and 2.
C4_SyncSpansRun ==
  (op = "sync" /\ subSync(arg) # None) =>
    /\ res # None
    /\ SpansLines(res, RunFirst(FirstLine(subSync(arg))), RunLast(FirstLine(subSync(arg))))
    /\ (Bottoms = <<10, 10, 20>> /\ FirstLine(subSync(arg)) = 1 => SpansLines(res, 1, 2))

C4_Witness ==
  /\ op = "sync"
  /\ Bottoms = <<10, 10, 20>>
  /\ arg = LineSel(1, FALSE)
  /\ absStart(res) = LineStart(1)
  /\ absEnd(res) = LineEnd(2)

\* The selection is a full layout line: it spans exactly a maximal run of structural
\* lines with equal bottoms, the selection sync maps to itself.
IsLayoutLine(sel) ==
  /\ sel.start \in Cursors
  /\ sel.end \in Cursors
  /\ SpansLines(sel, RunFirst(FirstLine(sel)), RunLast(FirstLine(sel)))

\* The structural line after sel in its direction of travel (0 or NumLines + 1 when
\* there is none).
LineBeyond(sel) == IF sel.reversed THEN LineOf(sel.end) - 1 ELSE LineOf(sel.end) + 1

\* C5: for s a full layout line with a further structural line in the direction
\* of travel, next(s) starts with the structural line immediately after s and
\* extends up to, and not including, the first structural line whose bottom differs;
\* for bottoms [10, 10, 20], next from lines 1-2 is exactly line 3.
C5_NextIsFollowingLayoutLine ==
  (op = "next" /\ IsLayoutLine(arg) /\ LineBeyond(arg) \in 1..NumLines) =>
    /\ res # None
    /\ (~arg.reversed => SpansLines(res, LineBeyond(arg), RunLast(LineBeyond(arg))))
    /\ (arg.reversed => SpansLines(res, RunFirst(LineBeyond(arg)), LineBeyond(arg)))
    /\ (Bottoms = <<10, 10, 20>> /\ absEquals(arg, CursorSelection(LineStart(1), LineEnd(2), FALSE))
          /\ ~arg.reversed => SpansLines(res, 3, 3))

C5_Witness ==
  /\ op = "next"
  /\ Bottoms = <<10, 10, 20>>
  /\ arg = CursorSelection(LineStart(1), LineEnd(2), FALSE)
  /\ SpansLines(res, 3, 3)

\* C6 as claimed: the selection next returns has the reversed flag of the selection
\* passed in.
C6_FlagPropagated ==
  (op = "next" /\ res # None) => res.reversed = arg.reversed

\* C6, amended: the selection next returns is never reversed, whatever the flag of
\* the selection passed in; the flag passed in decides the direction of travel only.
C6_NextNeverReversed ==
  (op = "next" /\ res # None) => ~res.reversed

C6_Witness ==
  /\ op = "next"
  /\ arg.reversed
  /\ res # None
  /\ ~res.reversed
  /\ LastLine(res) < FirstLine(arg)

\* C7: when no further structural line exists in the direction of travel next
\* returns none, on every call; a selection it returns lies strictly beyond the
\* directed end of the selection passed in, never at or behind it.
C7_NoWrapAround ==
  op = "next" =>
    /\ (LineBeyond(arg) \notin 1..NumLines => res = None)
    /\ (res # None /\ ~arg.reversed => absStart(res) > absEnd(arg))
    /\ (res # None /\ arg.reversed => absEnd(res) < absStart(arg))

C7_Witness ==
  /\ op = "next"
  /\ NumLines >= 3
  /\ IsLayoutLine(arg)
  /\ ~arg.reversed
  /\ LastLine(arg) = NumLines
  /\ res = None

\* C8 as claimed: for every selection s the walker can sync that has a following
\* line, sync(next(sync(s))) is absolute-equal to next(s).
C8_RoundTrip ==
  (op = "next" /\ sync(arg) # None /\ res # None) =>
    /\ next(sync(arg)) # None
    /\ absEquals(sync(next(sync(arg))), res)

\* C8, amended: for every selection s that is a full layout line (sync(s) is
\* absolute-equal to s) and has a following line, sync(next(sync(s))) is
\* absolute-equal to next(s).
C8_RoundTripOfLayoutLine ==
  (op = "next" /\ IsLayoutLine(arg) /\ res # None) =>
    /\ next(sync(arg)) # None
    /\ absEquals(sync(next(sync(arg))), res)

C8_Witness ==
  /\ op = "next"
  /\ IsLayoutLine(arg)
  /\ arg.reversed
  /\ FirstLine(arg) < LastLine(arg)
  /\ res # None
  /\ FirstLine(res) < LastLine(res)
  /\ absEquals(sync(next(sync(arg))), res)

ZeroSizedPair(k) == IsZeroSized(rects[k]) \/ IsZeroSized(rects[k + 1])

\* Whether the walker decided where the selection it returned stops between lines k
\* and k + 1: sync decides both ends of its result, extend_ and next only the end
\* in the direction of travel.
DecidedBetween(k) ==
  \/ Covers(res, k) /\ Covers(res, k + 1)
  \/ op = "sync" /\ (Covers(res, k) \/ Covers(res, k + 1))
  \/ op \in {"next", "extend"} /\ ~arg.reversed /\ LastLine(res) = k
  \/ op \in {"next", "extend"} /\ arg.reversed /\ FirstLine(res) = k + 1

\* C10 as claimed: a sub-selection with a zero-sized rectangle is taken to lie on
\* the line of its neighbour: extend_, sync and next introduce no line break there.
C10_ZeroSizedSameLine ==
  (op \in {"sync", "next", "extend"} /\ res # None) =>
    \A k \in 1..(NumLines - 1) :
      (ZeroSizedPair(k) /\ DecidedBetween(k)) => (Covers(res, k) /\ Covers(res, k + 1))

\* C10, amended: a zero-sized rectangle is compared like any other: extend_, sync
\* and next keep a sub-selection with a zero-sized rectangle on the line of its
\* neighbour exactly when the bottoms of the two rectangles are equal, and
\* introduce a line break between them otherwise.
C10_ZeroSizedComparedByBottom ==
  (op \in {"sync", "next", "extend"} /\ res # None) =>
    \A k \in 1..(NumLines - 1) :
      (ZeroSizedPair(k) /\ DecidedBetween(k)) =>
        ((Covers(res, k) /\ Covers(res, k + 1)) <=> SameBottom(k, k + 1))

C10_Witness ==
  /\ op = "sync"
  /\ NumLines = 3
  /\ rects[1] = RectUpper
  /\ rects[2] = ZeroRect
  /\ rects[3] = ZeroRect
  /\ arg = LineSel(2, FALSE)
  /\ SpansLines(res, 2, 3)

(***************************************************************************)
(* Properties of the node predicates.                                      *)
(***************************************************************************)

\* The indices of the nodes that pass a category's test, and of those with a tag.
Passing(category) == {i \in 1..Len(nodes) : Satisfies(category, nodes[i])}
Tagged(tagName) == {i \in 1..Len(nodes) : nodes[i].tagName = tagName}
Lowest(S) == IF S = {} THEN Null ELSE CHOOSE i \in S : \A j \in S : i <= j
Highest(S) == IF S = {} THEN Null ELSE CHOOSE i \in S : \A j \in S : j <= i

\* C15: each front-to-back predicate returns the lowest-index node that passes its
\* category's test, each tag-equality predicate the highest-index node with its tag,
\* and either returns none exactly when no node qualifies.
C15_FirstMatchInScanOrder ==
  match # <<>> =>
    /\ \A category \in FrontToBack : match[category] = Lowest(Passing(category))
    /\ \A tagName \in TagEquality : match[tagName] = Highest(Tagged(tagName))

\* Two nodes qualify and the two scan orders pick different ones.
C15_Witness ==
  /\ match # <<>>
  /\ Cardinality(Passing("heading")) > 1 /\ match.heading = 1
  /\ Cardinality(Tagged("H1")) > 1 /\ match.H1 = Len(nodes)

\* C16: for every array of changed ancestors, the empty one included, the not-link
\* predicate reports a match exactly when the link predicate returns none, that is
\* when no node is a link.
C16_NotLinkNegatesLink ==
  match # <<>> =>
    /\ match.notLink <=> (match.link = Null)
    /\ match.notLink <=> (Passing("link") = {})

\* A link that is not the first node: not-link reports no match.
C16_Witness ==
  /\ match # <<>>
  /\ match.link > 1
  /\ ~match.notLink

\* C17: the jump predicate returns a node exactly when the heading predicate or the
\* landmark predicate returns one, and it is whichever of their results has the
\* lower index.
C17_JumpIsHeadingOrLandmark ==
  match # <<>> =>
    /\ (match.jump # Null) <=> (match.heading # Null \/ match.landmark # Null)
    /\ match.jump = Lowest({match.heading, match.landmark} \ {Null})

\* A landmark before a heading: the jump predicate returns the landmark.
C17_Witness ==
  /\ match # <<>>
  /\ match.landmark # Null
  /\ match.heading # Null
  /\ match.landmark < match.heading
  /\ match.jump = match.landmark

(***************************************************************************)
(* Properties of the navigation commands.                                  *)
(***************************************************************************)

Utterance(text, queueMode) == [text |-> text, queueMode |-> queueMode, at |-> 0]
Texts == {out.spoken[i].text : i \in 1..Len(out.spoken)}

\* The position a forward (or backward) command moves to first, if there is one.
Ahead(forwards) == IF forwards THEN out.before.cur + 1 ELSE out.before.cur - 1

\* The command run last was a generic move in table mode, it started inside the
\* expected cell, and its move led into another cell of the table.
LeftTheCell(forwards) ==
  /\ out.cmd = (IF forwards THEN "forward" ELSE "backward")
  /\ out.before.inTable
  /\ InCell(out.before.cur, out.before.row, out.before.col)
  /\ InTableSubtree(Ahead(forwards))
  /\ ~InCell(Ahead(forwards), out.before.row, out.before.col)

C12_AlwaysReturnsFalse ==
  out.cmd \in {"forward", "backward"} => out.ret = "false"

\* The headings a heading search can arrive at: those after the position the
\* command started from (forwards), or those before it.
HeadingsAhead(forwards) ==
  {p \in doc.headings : IF forwards THEN p > out.before.cur ELSE p < out.before.cur}
Nearest(forwards) ==
  IF forwards THEN Lowest(HeadingsAhead(TRUE)) ELSE Highest(HeadingsAhead(FALSE))

\* C13: a search command that succeeds leaves the cursor exactly on the nearest
\* position in the search direction whose changed ancestors satisfy the predicate
\* (with one heading, at 5, a previous-heading search from 10 ends on 5).
C13_SearchEndsOnNearestMatch ==
  /\ (out.cmd = "nextHeading" /\ out.found = "match") => nav.cur = Nearest(TRUE)
  /\ (out.cmd = "previousHeading" /\ out.found = "match") => nav.cur = Nearest(FALSE)

\* C14: a search that finds no match speaks the error string of its command and
\* nothing else, replays no move, finishes no command, and leaves the selection and
\* the table state as they were.
C14_FailedSearchChangesNothing ==
  /\ (out.cmd = "nextHeading" /\ HeadingsAhead(TRUE) = {}) =>
       /\ out.spoken = <<Utterance("No next heading.", 0)>>
       /\ out.moves = <<>>
       /\ out.finishes = 0
       /\ nav.cur = out.before.cur
       /\ <<nav.inTable, nav.row, nav.col>> =
            <<out.before.inTable, out.before.row, out.before.col>>
  /\ (out.cmd = "previousHeading" /\ HeadingsAhead(FALSE) = {}) =>
       /\ out.spoken = <<Utterance("No previous heading.", 0)>>
       /\ out.moves = <<>>
       /\ out.finishes = 0
       /\ nav.cur = out.before.cur
       /\ <<nav.inTable, nav.row, nav.col>> =
            <<out.before.inTable, out.before.row, out.before.col>>

\* A previous-heading search in table mode with the only headings further on.
C14_Witness ==
  /\ out.cmd = "previousHeading"
  /\ HeadingsAhead(FALSE) = {}
  /\ doc.headings # {}
  /\ out.before.inTable
  /\ out.found = "no match"

\* The search command run last, if one was: its direction.
Searched == out.cmd \in {"nextHeading", "previousHeading"}
SearchedForwards == out.cmd = "nextHeading"

\* The places of a call in the log of the command run last.
CallsOf(names) == {i \in 1..Len(out.log) : out.log[i] \in names}

\* C24: a search that succeeds makes, after the search itself, exactly one move
\* backward and then runs the forward command exactly once, in that order, before
\* anything is spoken or described; nothing is described but by that forward
\* command, once, after its last move, and what is described is the position the
\* forward command left the cursor on.
C24_StepBackThenReplay ==
  (Searched /\ out.found = "match") =>
    /\ Len(out.log) >= 4
    /\ out.log[1] = "markInUserCommand_"
    /\ out.log[2] = (IF SearchedForwards THEN "findNext" ELSE "findPrevious")
    /\ out.log[3] = "previous"
    /\ CallsOf({"forward"}) = {4}
    /\ Cardinality(CallsOf({"finishNavCommand"})) = 1
    /\ \A i \in CallsOf({"finishNavCommand", "speak"}) : i > 4
    /\ \A i \in CallsOf({"next", "previous"}), j \in CallsOf({"finishNavCommand"}) : i < j
    /\ \A i \in 1..Len(out.spoken) : out.spoken[i].at \in {0, out.nav.cur}
    /\ \E i \in 1..Len(out.spoken) : out.spoken[i].at = out.nav.cur

\* A search backwards has succeeded in table mode.
C24_Witness ==
  /\ out.cmd = "previousHeading"
  /\ out.found = "match"
  /\ out.before.inTable
  /\ out.log[3] = "previous"
  /\ out.log[4] = "forward"

\* C25: a search command that succeeds in table mode with the match outside the
\* current cell (and not on the first position of the page, where no step back can
\* be made) ends on the matched position.
C25_ArrivalNotUndone ==
  (/\ Searched
   /\ out.found = "match"
   /\ out.before.inTable
   /\ Nearest(SearchedForwards) > 1
   /\ ~InCell(Nearest(SearchedForwards), out.before.row, out.before.col)) =>
    nav.cur = Nearest(SearchedForwards)

TableCommands == {"previousRow", "nextRow", "previousCol", "nextCol"}

\* The table command run last was given in table mode at the edge of the grid it
\* moves towards.
AtEdge(cmd) ==
  /\ out.cmd = cmd
  /\ out.before.inTable
  /\ CASE cmd = "previousRow" -> out.before.row = 1
       [] cmd = "nextRow" -> out.before.row = doc.rows
       [] cmd = "previousCol" -> out.before.col = 1
       [] cmd = "nextCol" -> out.before.col = doc.cols

\* The move failed: the coordinates are unchanged, the message is all that was
\* spoken and no command was finished.
FailedWith(message) ==
  /\ nav.row = out.before.row
  /\ nav.col = out.before.col
  /\ out.spoken = <<Utterance(message, 0)>>
  /\ out.finishes = 0

\* C18: in table mode, after any sequence of row and column commands, the row
\* index is within 1..rowCount and the column index within 1..colCount; a move at a
\* grid edge fails, leaves both indices unchanged, speaks the 'No cell ...' message
\* and finishes no command.
C18_IndicesStayInGrid ==
  /\ nav.inTable => nav.row \in 1..doc.rows /\ nav.col \in 1..doc.cols
  /\ AtEdge("previousRow") => FailedWith("No cell above.")
  /\ AtEdge("nextRow") => FailedWith("No cell below.")
  /\ AtEdge("previousCol") => FailedWith("No cell on left.")
  /\ AtEdge("nextCol") => FailedWith("No cell on right.")

\* A table of 3 rows and 3 columns, row 3, column 2: nextRow fails, the row is 3.
C18_Witness ==
  /\ doc.rows = 3 /\ doc.cols = 3
  /\ AtEdge("nextRow")
  /\ out.before.col = 2
  /\ nav.row = 3

\* C19: enterTable with no enclosing table leaves the table-mode flag, the
\* coordinates and the selection unchanged, speaks 'No table found.' and finishes
\* no command; when a table is found, table mode is set afterwards.
C19_EnterTable ==
  out.cmd = "enterTable" =>
    IF InTableSubtree(out.before.cur)
    THEN nav.inTable
    ELSE /\ nav.cur = out.before.cur
         /\ <<nav.inTable, nav.row, nav.col>> =
              <<out.before.inTable, out.before.row, out.before.col>>
         /\ out.spoken = <<Utterance("No table found.", 0)>>
         /\ out.finishes = 0

\* enterTable outside the table.
C19_Witness ==
  /\ out.cmd = "enterTable"
  /\ ~InTableSubtree(out.before.cur)
  /\ "No table found." \in Texts

\* C20: after exitTable table mode is off, whatever the state before, and the
\* selection is the same as before.
C20_ExitTable ==
  out.cmd = "exitTable" => ~nav.inTable /\ nav.cur = out.before.cur

\* exitTable in table mode.
C20_Witness ==
  /\ out.cmd = "exitTable"
  /\ out.before.inTable
  /\ ~nav.inTable


\* C21: a granularity command changes the active granularity by one level at most
\* and never wraps: previousGranularity at the coarsest level and nextGranularity
\* at the finest leave it as it was, and neither changes the table-mode flag.
C21_GranularityClamped ==
  out.cmd \in {"previousGranularity", "nextGranularity"} =>
    /\ out.nav.level =
         IF out.cmd = "previousGranularity"
         THEN (IF out.before.level = Len(Granularities)
               THEN out.before.level ELSE out.before.level + 1)
         ELSE (IF out.before.level = 1 THEN out.before.level ELSE out.before.level - 1)
    /\ out.nav.inTable = out.before.inTable
    /\ nav = out.nav

\* previousGranularity has run at the coarsest level with table mode on.
C21_Witness ==
  /\ out.cmd = "previousGranularity"
  /\ out.before.level = Len(Granularities)
  /\ out.before.inTable
  /\ nav.level = Len(Granularities)

(***************************************************************************)
(* Properties of a walk through the document and of its description.       *)
(***************************************************************************)

\* The walk has gone through the whole document: the walker returned none.
WalkFinished == op = "next" /\ res = None /\ produced # <<>>

\* C27: the layout lines returned by sync on the first structural line and then by
\* next, applied until it returns none, partition the structural lines: the first
\* begins with structural line 1, each further one begins with the structural line
\* after the end of the one before it (document order, no overlap, no gap), and at
\* the end of the walk every structural line lies in exactly one of them.
C27_LayoutLinesPartition ==
  /\ produced # <<>> => FirstLine(produced[1]) = 1
  /\ \A i \in 1..Len(produced) :
       /\ ~produced[i].reversed
       /\ produced[i].start = LineStart(FirstLine(produced[i]))
       /\ produced[i].end = LineEnd(LastLine(produced[i]))
       /\ FirstLine(produced[i]) <= LastLine(produced[i])
  /\ \A i \in 1..(Len(produced) - 1) :
       FirstLine(produced[i + 1]) = LastLine(produced[i]) + 1
  /\ WalkFinished =>
       \A l \in 1..NumLines :
         Cardinality({i \in 1..Len(produced) : Covers(produced[i], l)}) = 1

\* A walk has ended after three layout lines or more, one of them of two
\* structural lines or more.
C27_Witness ==
  /\ WalkFinished
  /\ Len(produced) >= 3
  /\ \E i \in 1..Len(produced) : FirstLine(produced[i]) < LastLine(produced[i])

\* getDescription has been applied to a selection whose start the structural-line
\* walker can sync.
Described ==
  /\ op = "getDescription"
  /\ subSync(CursorSelection(absStart(arg.sel), absStart(arg.sel), FALSE)) # None

InOneNode(sel) == NodeOf(absStart(sel)) = NodeOf(absEnd(sel))

\* C28: for a selection whose absolute start and end lie in the same node, and whose
\* start the structural-line walker can sync, getDescription(prevSel, sel) returns
\* exactly the structural-line walker's getDescription(prevSel, sel); nothing is
\* accumulated.
C28_OneNodeDelegates ==
  (Described /\ InOneNode(arg.sel)) =>
    /\ res.value = subGetDescription(arg.prevSel, arg.sel)
    /\ Len(res.value) = 1

\* A reversed selection inside one node, short of the end of its line, has been
\* described.
C28_Witness ==
  /\ Described
  /\ InOneNode(arg.sel)
  /\ arg.sel.reversed
  /\ absEnd(arg.sel) < LineEnd(LastLine(arg.sel))
  /\ LastLine(arg.sel) < NumLines
  /\ res.value = <<[prevSel |-> arg.prevSel, sel |-> arg.sel]>>

\* The descriptions of structural lines a to b, the first against prevSel and each
\* further one against the line before it.
DescriptionsOfLines(prevSel, a, b) ==
  [k \in 1..(b - a + 1) |->
     [prevSel |-> IF k = 1 THEN prevSel ELSE LineSel(a + k - 2, FALSE),
      sel |-> LineSel(a + k - 1, FALSE)]]

\* C29: for a selection that spans several nodes getDescription returns, in the
\* order of the document, the structural-line walker's descriptions of the
\* consecutive sub-selections from the one that holds the absolute start to the one
\* that holds the absolute end, the first described against the previous selection
\* passed in and each further one against the sub-selection before it.
C29_DescribesStartToEnd ==
  (Described /\ ~InOneNode(arg.sel)) =>
    res.value = DescriptionsOfLines(arg.prevSel, FirstLine(arg.sel), LastLine(arg.sel))

\* C30: getDescription includes no sub-selection beyond the absolute end of the
\* selection it describes, and getBraille none beyond the end of the layout line it
\* brailles, also when no sub-selection ends exactly at the absolute end.
C30_NothingBeyondTheEnd ==
  /\ op = "getDescription" =>
       \A i \in 1..Len(res.value) : absStart(res.value[i].sel) <= absEnd(arg.sel)
  /\ (op = "getBraille" /\ res.threw = "") =>
       \A i \in 1..Len(res.value.spans) :
         LineStart(res.value.spans[i].node) <= absEnd(sync(arg.sel))

(***************************************************************************)
(* Properties of the form-field predicate.                                 *)
(***************************************************************************)
\* C35: whenever the checkbox, radio, slider, button, combo-box or editable-text
\* predicate matches a node of the ancestor delta, the form-field predicate
\* matches on that delta too.
C35_FormFieldCoversControls ==
  match # <<>> =>
    ((\/ match.checkbox # Null
      \/ match.radio # Null
      \/ match.slider # Null
      \/ match.button # Null
      \/ match.comboBox # Null
      \/ match.editText # Null) => match.formField # Null)

(***************************************************************************)
(* Properties of what finishNavCommand speaks.                             *)
(***************************************************************************)
\* finishNavCommand was called on its own; the prefix it was handed.
Finished == out.cmd = "finishNavCommand"
PrefixHanded == out.log[1]

\* C37: in each finishNavCommand exactly the first utterance spoken (the prefix if
\* it is not empty, otherwise the first description unit) has queue mode 0 and
\* every later utterance of the call has queue mode 1; with an empty prefix and an
\* empty description nothing is spoken.
C37_FirstInterruptsRestAppend ==
  Finished =>
    LET description == getCurrentDescription(out.before)
        prefix == IF PrefixHanded # "" THEN <<PrefixHanded>> ELSE <<>>
    IN /\ [i \in 1..Len(out.spoken) |-> out.spoken[i].text] =
            prefix \o [i \in 1..Len(description) |-> description[i].text]
       /\ \A i \in 1..Len(out.spoken) :
            out.spoken[i].queueMode = IF i = 1 THEN 0 ELSE 1
       /\ (PrefixHanded = "" /\ description = <<>>) => out.spoken = <<>>

\* A prefix and a description of two units were spoken: three utterances.
C37_Witness ==
  /\ Finished
  /\ PrefixHanded # ""
  /\ Len(out.spoken) = 3
  /\ out.spoken[1].text = PrefixHanded
  /\ out.spoken[2].queueMode = 1
  /\ out.spoken[3].queueMode = 1

(***************************************************************************)
(* Properties of the PowerKey overlay.                                     *)
(***************************************************************************)
\* The places in the log where a callback of this kind ran for the selection.
RanFor(kind, selection) ==
  {i \in 1..Len(powerkey.ran) :
     powerkey.ran[i] = [kind |-> kind, selection |-> selection]}

\* Nothing scheduled for the selection is still waiting.
Settled(selection) ==
  \A i \in 1..Len(powerkey.timeouts) : powerkey.timeouts[i].selection # selection

\* C36: when the action handler dismisses a visible overlay with a saved node, the
\* focus restoration it schedules runs before the action callback it schedules,
\* and the action callback runs once for the selection: never twice, and once
\* when nothing scheduled for the selection is left.
C36_FocusBeforeAction ==
  \A selection \in 1..powerkey.selections :
    powerkey.dismissed[selection] =>
      /\ Cardinality(RanFor("action", selection)) <= 1
      /\ Cardinality(RanFor("focus", selection)) <= 1
      /\ \A i \in RanFor("action", selection) :
           \E j \in RanFor("focus", selection) : j < i
      /\ Settled(selection) =>
           /\ Cardinality(RanFor("action", selection)) = 1
           /\ Cardinality(RanFor("focus", selection)) = 1

\* Two selections each dismissed the overlay, the second before the action of the
\* first had run, and everything scheduled has run.
C36_Witness ==
  /\ powerkey.selections = 2
  /\ powerkey.dismissed = <<TRUE, TRUE>>
  /\ powerkey.timeouts = <<>>
  /\ \E i \in RanFor("action", 1), j \in RanFor("focus", 2) : j < i

(***************************************************************************)
(* Properties of the braille line.                                         *)
(***************************************************************************)
\* getBraille returned a braille line.
Brailled == op = "getBraille" /\ res.threw = ""

\* C31: in the braille line built from n >= 1 sub-selections an item separator
\* stands between every two consecutive segments and nowhere else: n - 1
\* separators, each right after a segment and right before the next, none before
\* the first segment and none after the last, also when a segment is empty.
C31_SeparatorBetweenSegments ==
  (Brailled /\ Len(res.value.spans) >= 1) =>
    LET braille == res.value
        n == Len(braille.spans)
    IN /\ Len(braille.separators) = n - 1
       /\ braille.spans[1].start = 0
       /\ braille.spans[n].end = braille.length
       /\ \A i \in 1..(n - 1) :
            /\ i <= Len(braille.separators) => braille.separators[i] = braille.spans[i].end
            /\ braille.spans[i + 1].start = braille.spans[i].end + SeparatorLength

\* The segments of the braille line whose sub-selection is absolute-equal to the
\* selection passed for cursor placement, the structural line of the selection.
CaretSegments ==
  {i \in 1..Len(res.value.spans) :
     absEquals(LineSel(res.value.spans[i].node, FALSE),
               subSync(setReversed(arg.sel, FALSE)))}

\* The node of a segment is an editable text node whose item has a value span.
EditableWithValue(node) == arg.field.node = node /\ arg.field.valueSpanStart # NullSpan

\* C32: getBraille sets the caret only at the sub-selection absolute-equal to the
\* selection passed for cursor placement: at an editable text node with a value
\* span it is segment start + value-span start + selectionStart and selectionEnd,
\* at any other node the one-character span at the segment start; with no
\* absolute-equal sub-selection the caret stays unset.
C32_CaretAtAbsEqual ==
  Brailled =>
    LET braille == res.value
    IN /\ CaretSegments = {} => (braille.startIndex = -1 /\ braille.endIndex = -1)
       /\ \A i \in CaretSegments :
            LET span == braille.spans[i]
            IN IF EditableWithValue(span.node)
               THEN /\ braille.startIndex =
                         span.start + arg.field.valueSpanStart + arg.field.selectionStart
                    /\ braille.endIndex =
                         span.start + arg.field.valueSpanStart + arg.field.selectionEnd
               ELSE /\ braille.startIndex = span.start
                    /\ braille.endIndex = span.start + 1

\* The caret was set in the second segment of a line, in the value of a text field
\* with a selection of one character.
C32_Witness ==
  /\ Brailled
  /\ Len(res.value.spans) >= 2
  /\ CaretSegments = {2}
  /\ EditableWithValue(res.value.spans[2].node)
  /\ res.value.startIndex = res.value.spans[2].start + 2
  /\ res.value.endIndex = res.value.spans[2].start + 3

\* C33: whenever getBraille sets the caret it lies inside the line returned:
\* 0 <= startIndex <= endIndex <= length of the text, for every sequence of
\* segments including empty ones.
C33_CaretInsideLine ==
  (Brailled /\ res.value.startIndex # -1) =>
    /\ 0 <= res.value.startIndex
    /\ res.value.startIndex <= res.value.endIndex
    /\ res.value.endIndex <= res.value.length

\* C34: getBraille returns an empty braille line, raising no error, whenever the
\* structural-line walker cannot sync the selection.
C34_UnsyncableGivesEmptyLine ==
  (op = "getBraille" /\ subSync(arg.sel) = None) => res = Value(EmptyBraille)

(***************************************************************************)
(* Properties of interframe communication.                                 *)
(***************************************************************************)

\* C22: a message the child frame sent with sendMessageToParentWindow while it held
\* the ID its parent assigned to it with sendIdToIFrame reaches the parent's
\* listeners with a parameter 'id' equal to that ID.
C22_ReplyCarriesAssignedId ==
  \A i \in 1..Len(frames.parent.heard) :
    LET h == frames.parent.heard[i]
    IN h.heldId # Undefined => h.message.id = h.heldId

\* What the listeners of window w were handed in the step.
NewlyHeard(w) ==
  SubSeq(frames'[w].heard, Len(frames[w].heard) + 1, Len(frames'[w].heard))

\* What the message listener of window w does with the event it is delivered.
DeliveredOnce(w) ==
  LET data == Head(frames[w].inbox).data
      message == parse(data.text)
      new == NewlyHeard(w)
  IN /\ SubSeq(frames'[w].heard, 1, Len(frames[w].heard)) = frames[w].heard
     /\ IF data.isString /\ data.prefix = IF_MSG_PREFIX
        THEN /\ [i \in 1..Len(new) |-> new[i].listener] = frames[w].listeners
             /\ \A i \in 1..Len(new) : new[i].message = message
             /\ message.command = SET_ID =>
                  /\ frames'[w].id = message.id
                  /\ \A i \in 1..Len(new) : new[i].id = message.id
        ELSE /\ new = <<>>
             /\ frames'[w].id = frames[w].id

\* C38: a message delivered to a window as a string with the interframe prefix is
\* handed to each listener registered with addListener exactly once, in
\* registration order, and a SET_ID message has set Interframe.id to its id when
\* the listeners run; a message that is not a string or lacks the prefix reaches
\* no listener and leaves Interframe.id unchanged.
C38_EachListenerOnceInOrder ==
  [][\A w \in Windows :
       frames'[w].events = frames[w].events + 1 => DeliveredOnce(w)]_vars

\* The two listeners of the iframe were handed a SET_ID message, the first
\* registered first, and both saw the id it carries in Interframe.id.
C38_Witness ==
  /\ Len(frames.child.heard) = 2
  /\ frames.child.events = 1
  /\ frames.child.heard[1].listener = 1
  /\ frames.child.heard[2].listener = 2
  /\ frames.child.heard[1].message.command = SET_ID
  /\ frames.child.heard[2].message = frames.child.heard[1].message
  /\ frames.child.heard[1].id = frames.child.heard[1].message.id
  /\ frames.child.heard[2].id = frames.child.heard[1].message.id
  /\ frames.child.id = frames.child.heard[1].message.id

(***************************************************************************)
(* Properties of the keyboard handler.                                     *)
(***************************************************************************)

\* A key event has been handled while ChromeVox was not active.
HandledInactive == keys.ret # "none" /\ ~keys.wasActive

\* The command the handler looked up for the key event.
LookedUp == keys.functionName

OnlyToggleInvoked ==
  \A i \in 1..Len(keys.commands) : keys.commands[i] = "toggleChromeVox"

\* C23, as stated: while ChromeVox is not active the handler invokes no command
\* function other than toggleChromeVox, for any key event, and for a key that does
\* not toggle ChromeVox it returns true.
C23_InactivePassesEveryKey ==
  HandledInactive =>
    /\ OnlyToggleInvoked
    /\ LookedUp # "toggleChromeVox" => keys.ret = "true"

\* C23, amended: while ChromeVox is not active the handler invokes no command
\* function other than toggleChromeVox, for any key event including Enter; it
\* returns true for a key bound to another command, and for a key bound to no
\* command it returns true exactly when no key sequence is in progress.
C23_InactiveIgnoresCommands ==
  HandledInactive =>
    /\ OnlyToggleInvoked
    /\ LookedUp \notin {"", "toggleChromeVox"} =>
         keys.ret = "true" /\ keys.commands = <<>> /\ ~keys.stopped
    /\ LookedUp = "" => keys.ret = Returned(~keys.evt.sequencing) /\ keys.commands = <<>>

\* Enter, bound to a command that exists, was pressed while ChromeVox was not
\* active, and the handler has returned.
C23_Witness ==
  /\ HandledInactive
  /\ keys.evt.keyCode = Enter
  /\ LookedUp = "forward"
  /\ keys.evt.hasFunc
  /\ keys.evt.activeElement = "DIV"
  /\ keys.ret = "true"


\* The expiries scheduled by the command run last, and those of them that have run.
OwnIds == (Len(calls) - out.marks + 1)..Len(calls)
OwnFired == {i \in 1..Len(fired) : fired[i] \in OwnIds}
OthersFiredSince == {i \in (out.expired + 1)..Len(fired) : fired[i] \notin OwnIds}

====
